---- MODULE Spec2Model ----
(***************************************************************************)
(* A model of the task-queue service (hivellm/task-queue): the task phase  *)
(* state machine of core.rs, the service operations of server.rs with      *)
(* their write-through to the sled-backed storage engine of storage.rs,    *)
(* the effective-status function and the workflow cycle detection.         *)
(*                                                                         *)
(* Conventions.  Option<T> is a sequence of length at most one: None is    *)
(* <<>> and Some(x) is <<x>>.  HashMap<Uuid, T> is a function whose        *)
(* domain is the set of keys present.  Uuids are small positive integers.  *)
(* chrono::Utc::now() is a logical clock that moves when a call rewrites   *)
(* a phase history.                                                        *)
(* Fields the service records but never reads back (updated_at,            *)
(* created_at, metadata, environment, timeout, ...) are left out.          *)
(***************************************************************************)
EXTENDS Integers, Sequences, FiniteSets, TLC

VARIABLES
    tasks,          \* TaskQueueServer.tasks      : HashMap<Uuid, Task>
    projects,       \* TaskQueueServer.projects   : HashMap<Uuid, Project>
    workflows,      \* TaskQueueServer.workflows  : HashMap<Uuid, Workflow>
    db_tasks,       \* StorageEngine.tasks_tree
    db_projects,    \* StorageEngine.projects_tree
    db_workflows,   \* StorageEngine.workflows_tree
    clock,          \* the last reading of chrono::Utc::now()
    faulted,        \* whether the storage engine has ever returned an error
    procs,          \* the calls in flight, each with the step it has reached
    last,           \* the last call made on the service and what it returned
    active_requests,\* Throttler.active_requests : HashMap<String, ThrottledRequest>
    request_queue,  \* Throttler.request_queue   : Vec<ThrottledRequest>
    guards,         \* the call holding the write guard of each lock
    data,           \* Cache.data   : HashMap<K, CacheEntry<V>>
    config          \* Cache.config : CacheConfig

\* rate_limiting.rs: the fields of Throttler and the guards on them.
throttler == <<active_requests, request_queue, guards>>

\* cache.rs: the fields of Cache.
cache == <<data, config>>

vars ==
    <<tasks, projects, workflows, db_tasks, db_projects, db_workflows, clock, faulted, procs, last,
      throttler, cache>>

(***************************************************************************)
(* Bounds of the model.                                                    *)
(***************************************************************************)
MaxTasks == 2
MaxProjects == 2
MaxClock == 5
MaxReviews == 3
MaxWorkflows == 2
MaxCalls == 2
MaxWorkflowTasks == 2
MaxDependencies == 2

TaskIds == 1..MaxTasks
ProjectIds == 1..MaxProjects
WorkflowIds == 1..MaxWorkflows
Calls == 1..MaxCalls

None == <<>>
Some(x) == <<x>>

(***************************************************************************)
(* core.rs: the enumerations.                                              *)
(***************************************************************************)
TaskStatus ==
    { "Planning", "Implementation", "TestCreation", "Testing", "AIReview", "Finalized",
      "AnalysisAndDocumentation", "InDiscussion", "InImplementation", "InReview", "InTesting",
      "Pending", "Running", "Completed", "Failed", "Cancelled", "WaitingForDependencies" }

DevelopmentWorkflowStatus ==
    { "NotStarted", "Planning", "InImplementation", "TestCreation", "Testing", "AIReview",
      "Completed", "Failed" }

TaskPriority == { "Low", "Normal", "High", "Critical" }

default_ai_reviews_required == 3

\* A fresh phase record, as every push onto Task.phases builds it.
TaskPhase(phase, now) ==
    [ phase |-> phase, started_at |-> Some(now), completed_at |-> None, ai_reviews |-> <<>> ]

default_development_workflow ==
    Some([ technical_documentation_path |-> None,
           test_coverage_percentage |-> None,
           ai_review_reports |-> <<>>,
           workflow_status |-> "NotStarted" ])

(***************************************************************************)
(* Two faulty variants of can_transition_to, which the properties of the   *)
(* transition table must tell from the real one: the first has lost the    *)
(* Failed -> Planning arm, the second the review gate on Finalized.        *)
(***************************************************************************)
can_transition_to_no_rollback(task, new_status) ==
    LET cur == task.current_phase IN
    CASE cur = "Planning" /\ new_status = "Implementation" -> TRUE
      [] cur = "Implementation" /\ new_status = "TestCreation" -> TRUE
      [] cur = "TestCreation" /\ new_status = "Testing" -> TRUE
      [] cur = "Testing" /\ new_status = "AIReview" -> TRUE
      [] cur = "AIReview" /\ new_status = "Finalized" ->
            task.ai_reviews_completed >= task.ai_reviews_required
      [] cur = "AIReview" /\ new_status = "Implementation" -> TRUE
      [] cur = "Failed" /\ new_status = "Implementation" -> TRUE
      [] new_status = "Cancelled" -> TRUE
      [] cur = new_status -> TRUE
      [] OTHER -> FALSE

can_transition_to_ungated(task, new_status) ==
    LET cur == task.current_phase IN
    CASE cur = "Planning" /\ new_status = "Implementation" -> TRUE
      [] cur = "Implementation" /\ new_status = "TestCreation" -> TRUE
      [] cur = "TestCreation" /\ new_status = "Testing" -> TRUE
      [] cur = "Testing" /\ new_status = "AIReview" -> TRUE
      [] cur = "AIReview" /\ new_status = "Finalized" -> TRUE
      [] cur = "AIReview" /\ new_status = "Implementation" -> TRUE
      [] cur = "Failed" /\ new_status = "Implementation" -> TRUE
      [] cur = "Failed" /\ new_status = "Planning" -> TRUE
      [] new_status = "Cancelled" -> TRUE
      [] cur = new_status -> TRUE
      [] OTHER -> FALSE

\* A faulty variant of can_transition_to that lets any phase go to Failed,
\* as it lets any phase go to Cancelled.
can_transition_to_failed(task, new_status) ==
    LET cur == task.current_phase IN
    CASE cur = "Planning" /\ new_status = "Implementation" -> TRUE
      [] cur = "Implementation" /\ new_status = "TestCreation" -> TRUE
      [] cur = "TestCreation" /\ new_status = "Testing" -> TRUE
      [] cur = "Testing" /\ new_status = "AIReview" -> TRUE
      [] cur = "AIReview" /\ new_status = "Finalized" ->
            task.ai_reviews_completed >= task.ai_reviews_required
      [] cur = "AIReview" /\ new_status = "Implementation" -> TRUE
      [] cur = "Failed" /\ new_status = "Implementation" -> TRUE
      [] cur = "Failed" /\ new_status = "Planning" -> TRUE
      [] new_status = "Cancelled" -> TRUE
      [] new_status = "Failed" -> TRUE
      [] cur = new_status -> TRUE
      [] OTHER -> FALSE

\* A faulty variant of can_transition_to that lets a Cancelled task be
\* planned again.
can_transition_to_reopens(task, new_status) ==
    LET cur == task.current_phase IN
    CASE cur = "Planning" /\ new_status = "Implementation" -> TRUE
      [] cur = "Implementation" /\ new_status = "TestCreation" -> TRUE
      [] cur = "TestCreation" /\ new_status = "Testing" -> TRUE
      [] cur = "Testing" /\ new_status = "AIReview" -> TRUE
      [] cur = "AIReview" /\ new_status = "Finalized" ->
            task.ai_reviews_completed >= task.ai_reviews_required
      [] cur = "AIReview" /\ new_status = "Implementation" -> TRUE
      [] cur = "Failed" /\ new_status = "Implementation" -> TRUE
      [] cur = "Failed" /\ new_status = "Planning" -> TRUE
      [] cur = "Cancelled" /\ new_status = "Planning" -> TRUE
      [] new_status = "Cancelled" -> TRUE
      [] cur = new_status -> TRUE
      [] OTHER -> FALSE

(***************************************************************************)
(* core.rs: Task::can_transition_to.  The match arms are tried in order.   *)
(***************************************************************************)
can_transition_to(task, new_status) ==
    LET cur == task.current_phase IN
    CASE cur = "Planning" /\ new_status = "Implementation" -> TRUE
      [] cur = "Implementation" /\ new_status = "TestCreation" -> TRUE
      [] cur = "TestCreation" /\ new_status = "Testing" -> TRUE
      [] cur = "Testing" /\ new_status = "AIReview" -> TRUE
      [] cur = "AIReview" /\ new_status = "Finalized" ->
            task.ai_reviews_completed >= task.ai_reviews_required
      [] cur = "AIReview" /\ new_status = "Implementation" -> TRUE
      [] cur = "Failed" /\ new_status = "Implementation" -> TRUE
      [] cur = "Failed" /\ new_status = "Planning" -> TRUE
      [] new_status = "Cancelled" -> TRUE
      [] cur = new_status -> TRUE
      [] OTHER -> FALSE

\* phases.last_mut().completed_at = Some(now): nothing when the history is empty.
CloseLastPhase(phases, now) ==
    IF Len(phases) = 0 THEN phases
    ELSE [phases EXCEPT ![Len(phases)].completed_at = Some(now)]

\* A faulty variant of set_status that pushes the new entry without closing
\* the one before it.
set_status_leaves_open(task, new_status, now) ==
    IF ~can_transition_to(task, new_status)
    THEN [ok |-> FALSE, task |-> task]
    ELSE
      LET pushed == Append(task.phases, TaskPhase(new_status, now))
          phases2 ==
              CASE new_status = "AIReview" ->
                     IF task.current_phase # "AIReview" THEN pushed ELSE task.phases
                [] new_status = "Implementation" ->
                     IF task.current_phase = "AIReview" THEN pushed ELSE task.phases
                [] new_status = "Finalized" -> CloseLastPhase(task.phases, now)
                [] OTHER ->
                     IF task.current_phase # new_status THEN pushed ELSE task.phases
      IN [ok |-> TRUE,
          task |-> [task EXCEPT !.phases = phases2,
                                !.current_phase = new_status,
                                !.status = new_status]]

(***************************************************************************)
(* core.rs: Task::set_status.  Returns [ok, task]; on Err the task is      *)
(* returned untouched.                                                     *)
(***************************************************************************)
set_status(task, new_status, now) ==
    IF ~can_transition_to(task, new_status)
    THEN [ok |-> FALSE, task |-> task]
    ELSE
      LET closed_and_pushed ==
              Append(CloseLastPhase(task.phases, now), TaskPhase(new_status, now))
          phases2 ==
              CASE new_status = "AIReview" ->
                     IF task.current_phase # "AIReview" THEN closed_and_pushed ELSE task.phases
                [] new_status = "Implementation" ->
                     IF task.current_phase = "AIReview" THEN closed_and_pushed ELSE task.phases
                [] new_status = "Finalized" -> CloseLastPhase(task.phases, now)
                [] OTHER ->
                     IF task.current_phase # new_status THEN closed_and_pushed ELSE task.phases
      IN [ok |-> TRUE,
          task |-> [task EXCEPT !.phases = phases2,
                                !.current_phase = new_status,
                                !.status = new_status]]

(***************************************************************************)
(* core.rs: Task::advance_phase.                                           *)
(***************************************************************************)
advance_phase(task, now) ==
    LET cur == task.current_phase IN
    CASE cur = "Planning" -> set_status(task, "Implementation", now)
      [] cur = "Implementation" -> set_status(task, "TestCreation", now)
      [] cur = "TestCreation" -> set_status(task, "Testing", now)
      [] cur = "Testing" -> set_status(task, "AIReview", now)
      [] cur = "AIReview" ->
            IF task.ai_reviews_completed >= task.ai_reviews_required
            THEN set_status(task, "Finalized", now)
            ELSE [ok |-> FALSE, task |-> task]
      [] OTHER -> [ok |-> FALSE, task |-> task]

(***************************************************************************)
(* HashMap insert / remove.                                                *)
(***************************************************************************)
Put(m, k, v) == [x \in (DOMAIN m) \cup {k} |-> IF x = k THEN v ELSE m[x]]

Remove(m, k) == [x \in (DOMAIN m) \ {k} |-> m[x]]

EmptyMap == [x \in {} |-> None]

(***************************************************************************)
(* storage.rs: every store_* is tree.insert(key, value)? followed by       *)
(* tree.flush_async().await?, every delete_* is tree.remove(key)? followed *)
(* by the flush.  Either step may return a sled error: "insert" fails      *)
(* before the tree is touched, "flush" after the tree holds the write.     *)
(***************************************************************************)
StorageFaults == { "none", "insert", "flush" }

store(tree, key, value, fault) == IF fault = "insert" THEN tree ELSE Put(tree, key, value)

delete(tree, key, fault) == IF fault = "insert" THEN tree ELSE Remove(tree, key)

StoreResult(fault) == IF fault = "none" THEN "Ok" ELSE "StorageError"

\* What a call leaves in `last`: the call, its subject, its argument, its result.
\* n flips on every call, so that no call is a stuttering step.
Ret(op, id, arg, result) ==
    [ n |-> 1 - last.n, op |-> op, id |-> id, arg |-> arg, result |-> result ]

\* chrono::Utc::now() is read by set_status only when it rewrites the history.
Tick(old_task, new_task) == IF new_task.phases # old_task.phases THEN clock + 1 ELSE clock

(***************************************************************************)
(* core.rs: CreateTaskRequest::to_task (the POST /tasks body made a Task). *)
(***************************************************************************)
to_task(id, name, command, description, project_id, priority, ai_reviews_required, now) ==
    [ id |-> id, name |-> name, command |-> command, description |-> description,
      project |-> None, priority |-> priority, project_id |-> project_id,
      retry_attempts |-> 3,
      status |-> "Planning", result |-> None,
      phases |-> << TaskPhase("Planning", now) >>,
      current_phase |-> "Planning",
      ai_reviews_required |-> ai_reviews_required,
      ai_reviews_completed |-> 0,
      development_workflow |-> default_development_workflow ]

\* A faulty variant of validate_task that does not look the project up.
validate_task_no_lookup(task, projs) ==
    IF task.name = "" THEN "InvalidTaskDefinition"
    ELSE IF task.command = "" THEN "InvalidTaskDefinition"
    ELSE IF task.project_id = None THEN "InvalidTaskDefinition"
    ELSE "Ok"

(***************************************************************************)
(* server.rs: TaskQueueServer::validate_task.                              *)
(***************************************************************************)
validate_task(task, projs) ==
    IF task.name = "" THEN "InvalidTaskDefinition"
    ELSE IF task.command = "" THEN "InvalidTaskDefinition"
    ELSE IF task.project_id = None THEN "InvalidTaskDefinition"
    ELSE IF task.project_id[1] \notin DOMAIN projs THEN "InvalidTaskDefinition"
    ELSE "Ok"

(***************************************************************************)
(* server.rs: TaskQueueServer::submit_task, run without interleaving.      *)
(***************************************************************************)
submit_task(task, fault) ==
    LET v == validate_task(task, projects) IN
    /\ IF v # "Ok"
       THEN /\ UNCHANGED <<tasks, db_tasks, faulted>>
            /\ last' = Ret("submit_task", task.id, "", v)
       ELSE /\ tasks' = Put(tasks, task.id, task)
            /\ db_tasks' = store(db_tasks, task.id, task, fault)
            /\ faulted' = (faulted \/ fault # "none")
            /\ last' = Ret("submit_task", task.id, "", StoreResult(fault))
    /\ UNCHANGED <<projects, workflows, db_projects, db_workflows, clock, procs, throttler, cache>>

(***************************************************************************)
(* server.rs: TaskQueueServer::submit_task as the steps another call can   *)
(* run between.  validate_task reads the projects map; the task is then    *)
(* inserted under a tasks write lock that is dropped at the end of its     *)
(* block; store_task runs after that, with no lock held, on the clone the  *)
(* call was given.  c names the call in flight.                            *)
(***************************************************************************)
submit_task_validate(c, task) ==
    LET v == validate_task(task, projects) IN
    /\ c \notin DOMAIN procs
    /\ IF v # "Ok"
       THEN /\ last' = Ret("submit_task", task.id, "", v)
            /\ UNCHANGED procs
       ELSE /\ procs' = Put(procs, c, [ op |-> "submit_task", pc |-> "insert", task |-> task ])
            /\ UNCHANGED last
    /\ UNCHANGED <<tasks, projects, workflows, db_tasks, db_projects, db_workflows,
                   clock, faulted, throttler, cache>>

submit_task_insert(c) ==
    /\ c \in DOMAIN procs
    /\ procs[c].op = "submit_task" /\ procs[c].pc = "insert"
    /\ tasks' = Put(tasks, procs[c].task.id, procs[c].task)
    /\ procs' = [procs EXCEPT ![c].pc = "store"]
    /\ UNCHANGED <<projects, workflows, db_tasks, db_projects, db_workflows,
                   clock, faulted, last, throttler, cache>>

submit_task_store(c, fault) ==
    /\ c \in DOMAIN procs
    /\ procs[c].op = "submit_task" /\ procs[c].pc = "store"
    /\ db_tasks' = store(db_tasks, procs[c].task.id, procs[c].task, fault)
    /\ faulted' = (faulted \/ fault # "none")
    /\ last' = Ret("submit_task", procs[c].task.id, "", StoreResult(fault))
    /\ procs' = Remove(procs, c)
    /\ UNCHANGED <<tasks, projects, workflows, db_projects, db_workflows, clock, throttler, cache>>

\* The shared tail of the task mutators: the in-memory task has been changed
\* through tasks.get_mut, then self.storage.store_task(task).await? runs.
StoreTask(op, id, arg, new_task, fault, ok_result) ==
    /\ tasks' = Put(tasks, id, new_task)
    /\ db_tasks' = store(db_tasks, id, new_task, fault)
    /\ faulted' = (faulted \/ fault # "none")
    /\ last' = Ret(op, id, arg, IF fault = "none" THEN ok_result ELSE "StorageError")

TaskNotFound(op, id, arg) ==
    /\ UNCHANGED <<tasks, db_tasks, faulted>>
    /\ last' = Ret(op, id, arg, "TaskNotFound")

(***************************************************************************)
(* server.rs: TaskQueueServer::set_task_status.                            *)
(***************************************************************************)
set_task_status(id, new_status, fault) ==
    /\ IF id \notin DOMAIN tasks
       THEN TaskNotFound("set_task_status", id, new_status) /\ UNCHANGED clock
       ELSE LET r == set_status(tasks[id], new_status, clock + 1) IN
            IF ~r.ok
            THEN /\ UNCHANGED <<tasks, db_tasks, faulted, clock>>
                 /\ last' = Ret("set_task_status", id, new_status, "InvalidStatusTransition")
            ELSE /\ StoreTask("set_task_status", id, new_status, r.task, fault, "Ok")
                 /\ clock' = Tick(tasks[id], r.task)
    /\ clock' <= MaxClock
    /\ UNCHANGED <<projects, workflows, db_projects, db_workflows, procs, throttler, cache>>

(***************************************************************************)
(* server.rs: TaskQueueServer::advance_task_phase.  A refused advance is   *)
(* logged and returned as Ok(false).                                       *)
(***************************************************************************)
advance_task_phase(id, fault) ==
    /\ IF id \notin DOMAIN tasks
       THEN TaskNotFound("advance_task_phase", id, "") /\ UNCHANGED clock
       ELSE LET r == advance_phase(tasks[id], clock + 1) IN
            IF ~r.ok
            THEN /\ UNCHANGED <<tasks, db_tasks, faulted, clock>>
                 /\ last' = Ret("advance_task_phase", id, "", "Ok(false)")
            ELSE /\ StoreTask("advance_task_phase", id, "", r.task, fault, "Ok(true)")
                 /\ clock' = Tick(tasks[id], r.task)
    /\ clock' <= MaxClock
    /\ UNCHANGED <<projects, workflows, db_projects, db_workflows, procs, throttler, cache>>

(***************************************************************************)
(* server.rs: TaskQueueServer::cancel_task.                                *)
(***************************************************************************)
cancel_task(id, reason, fault) ==
    /\ IF id \notin DOMAIN tasks
       THEN TaskNotFound("cancel_task", id, reason)
       ELSE StoreTask("cancel_task", id, reason,
                      [tasks[id] EXCEPT !.status = "Cancelled",
                                        !.result = Some([kind |-> "Cancelled", reason |-> reason])],
                      fault, "Ok")
    /\ UNCHANGED <<projects, workflows, db_projects, db_workflows, clock, procs, throttler, cache>>

(***************************************************************************)
(* server.rs: TaskQueueServer::retry_task.                                 *)
(***************************************************************************)
retry_task(id, reset_retry_count, fault) ==
    /\ IF id \notin DOMAIN tasks
       THEN TaskNotFound("retry_task", id, "")
       ELSE StoreTask("retry_task", id, "",
                      [tasks[id] EXCEPT !.retry_attempts = IF reset_retry_count THEN 0 ELSE @,
                                        !.status = "Pending",
                                        !.result = None],
                      fault, "Ok")
    /\ UNCHANGED <<projects, workflows, db_projects, db_workflows, clock, procs, throttler, cache>>

(***************************************************************************)
(* server.rs: TaskQueueServer::delete_task.                                *)
(***************************************************************************)
delete_task(id, fault) ==
    /\ IF id \notin DOMAIN tasks
       THEN TaskNotFound("delete_task", id, "")
       ELSE /\ tasks' = Remove(tasks, id)
            /\ db_tasks' = delete(db_tasks, id, fault)
            /\ faulted' = (faulted \/ fault # "none")
            /\ last' = Ret("delete_task", id, "", StoreResult(fault))
    /\ UNCHANGED <<projects, workflows, db_projects, db_workflows, clock, procs, throttler, cache>>

(***************************************************************************)
(* server.rs: TaskQueueServer::update_task.  Each argument is an Option;   *)
(* the fields are written through tasks.get_mut in the order of the code,  *)
(* so an Err from set_status returns after name, command, description and  *)
(* priority have been written and before the task is stored.               *)
(***************************************************************************)
update_task(id, name, command, description, priority, status, project_id, fault) ==
    /\ IF id \notin DOMAIN tasks
       THEN TaskNotFound("update_task", id, "") /\ UNCHANGED clock
       ELSE LET t1 == [tasks[id] EXCEPT
                          !.name = IF name = None THEN @ ELSE name[1],
                          !.command = IF command = None THEN @ ELSE command[1],
                          !.description = IF description = None THEN @ ELSE description[1],
                          !.priority = IF priority = None THEN @ ELSE priority[1]]
                r == IF status = None THEN [ok |-> TRUE, task |-> t1]
                     ELSE set_status(t1, status[1], clock + 1)
                t2 == [r.task EXCEPT !.project_id = IF project_id = None THEN @ ELSE project_id[1]]
            IN IF ~r.ok
               THEN /\ tasks' = Put(tasks, id, t1)
                    /\ UNCHANGED <<db_tasks, faulted, clock>>
                    /\ last' = Ret("update_task", id, "", "InvalidStatusTransition")
               ELSE /\ StoreTask("update_task", id, "", t2, fault, "Ok")
                    /\ clock' = Tick(tasks[id], t2)
    /\ clock' <= MaxClock
    /\ UNCHANGED <<projects, workflows, db_projects, db_workflows, procs, throttler, cache>>

\* A faulty variant of upsert_task whose update path replaces the task by a
\* fresh one of the same id instead of writing four of its fields.
upsert_task_replaces(existing, new_id, name, command, description, project_id, priority, fault) ==
    /\ IF existing = None
       THEN \A i \in DOMAIN tasks : tasks[i].name # name
       ELSE existing[1] \in DOMAIN tasks /\ tasks[existing[1]].name = name
    /\ LET id == IF existing # None THEN existing[1] ELSE new_id
           t1 == to_task(id, name, command, description, Some(project_id),
                         priority, default_ai_reviews_required, clock)
           v == validate_task(t1, projects)
       IN IF v # "Ok"
          THEN /\ UNCHANGED <<tasks, db_tasks, faulted>>
               /\ last' = Ret("upsert_task", id, name, v)
          ELSE StoreTask("upsert_task", id, name, t1, fault, "Ok")
    /\ UNCHANGED <<projects, workflows, db_projects, db_workflows, clock, procs, throttler, cache>>

(***************************************************************************)
(* server.rs: TaskQueueServer::upsert_task.  The task of that name, if     *)
(* any, is found by iterating the map: with several of the same name the   *)
(* HashMap's iteration order decides which, so any of them may be taken.   *)
(* existing is that choice (None when no task has the name); new_id is the *)
(* Uuid::new_v4() of the create path.                                      *)
(***************************************************************************)
upsert_task(existing, new_id, name, command, description, project_id, priority, fault) ==
    /\ IF existing = None
       THEN \A i \in DOMAIN tasks : tasks[i].name # name
       ELSE existing[1] \in DOMAIN tasks /\ tasks[existing[1]].name = name
    /\ IF existing # None
       THEN LET id == existing[1]
                t1 == [tasks[id] EXCEPT !.command = command,
                                        !.description = description,
                                        !.priority = priority,
                                        !.project_id = Some(project_id)]
                v == validate_task(t1, projects)
            IN IF v # "Ok"
               THEN /\ tasks' = Put(tasks, id, t1)
                    /\ UNCHANGED <<db_tasks, faulted>>
                    /\ last' = Ret("upsert_task", id, name, v)
               ELSE StoreTask("upsert_task", id, name, t1, fault, "Ok")
       ELSE LET t1 == to_task(new_id, name, command, description, Some(project_id),
                              priority, default_ai_reviews_required, clock)
                v == validate_task(t1, projects)
            IN IF v # "Ok"
               THEN /\ UNCHANGED <<tasks, db_tasks, faulted>>
                    /\ last' = Ret("upsert_task", new_id, name, v)
               ELSE StoreTask("upsert_task", new_id, name, t1, fault, "Ok")
    /\ UNCHANGED <<projects, workflows, db_projects, db_workflows, clock, procs, throttler, cache>>

(***************************************************************************)
(* server.rs: TaskQueueServer::advance_development_workflow.               *)
(***************************************************************************)
\* A faulty variant of the match in advance_development_workflow that goes
\* from TestCreation straight to AIReview.
next_workflow_status_skips_testing(ws) ==
    CASE ws = "NotStarted" -> "Planning"
      [] ws = "Planning" -> "InImplementation"
      [] ws = "InImplementation" -> "TestCreation"
      [] ws = "TestCreation" -> "AIReview"
      [] ws = "Testing" -> "AIReview"
      [] ws = "AIReview" -> "Completed"
      [] OTHER -> ws

next_workflow_status(ws) ==
    CASE ws = "NotStarted" -> "Planning"
      [] ws = "Planning" -> "InImplementation"
      [] ws = "InImplementation" -> "TestCreation"
      [] ws = "TestCreation" -> "Testing"
      [] ws = "Testing" -> "AIReview"
      [] ws = "AIReview" -> "Completed"
      [] OTHER -> ws

\* A faulty variant of advance_development_workflow that writes the new
\* workflow status to the task's status as well.
advance_development_workflow_sets_status(id, fault) ==
    /\ IF id \notin DOMAIN tasks
       THEN TaskNotFound("advance_development_workflow", id, "")
       ELSE LET t == tasks[id] IN
            IF t.development_workflow # None
            THEN LET next_status == next_workflow_status(t.development_workflow[1].workflow_status)
                 IN StoreTask("advance_development_workflow", id, "",
                              [t EXCEPT !.development_workflow[1].workflow_status = next_status,
                                        !.status = next_status],
                              fault, next_status)
            ELSE StoreTask("advance_development_workflow", id, "",
                           [t EXCEPT !.development_workflow =
                               Some([ technical_documentation_path |-> None,
                                      test_coverage_percentage |-> None,
                                      ai_review_reports |-> <<>>,
                                      workflow_status |-> "Planning" ])],
                           fault, "Planning")
    /\ UNCHANGED <<projects, workflows, db_projects, db_workflows, clock, procs, throttler, cache>>

advance_development_workflow(id, fault) ==
    /\ IF id \notin DOMAIN tasks
       THEN TaskNotFound("advance_development_workflow", id, "")
       ELSE LET t == tasks[id] IN
            IF t.development_workflow # None
            THEN LET next_status == next_workflow_status(t.development_workflow[1].workflow_status)
                 IN StoreTask("advance_development_workflow", id, "",
                              [t EXCEPT !.development_workflow[1].workflow_status = next_status],
                              fault, next_status)
            ELSE StoreTask("advance_development_workflow", id, "",
                           [t EXCEPT !.development_workflow =
                               Some([ technical_documentation_path |-> None,
                                      test_coverage_percentage |-> None,
                                      ai_review_reports |-> <<>>,
                                      workflow_status |-> "Planning" ])],
                           fault, "Planning")
    /\ UNCHANGED <<projects, workflows, db_projects, db_workflows, clock, procs, throttler, cache>>

\* The three setters below share their shape: TaskNotFound, then
\* ValidationError when the task carries no workflow, then write and store.
WorkflowSetter(op, id, arg, new_task, fault) ==
    /\ IF id \notin DOMAIN tasks
       THEN TaskNotFound(op, id, arg)
       ELSE IF tasks[id].development_workflow = None
            THEN /\ UNCHANGED <<tasks, db_tasks, faulted>>
                 /\ last' = Ret(op, id, arg, "ValidationError")
            ELSE StoreTask(op, id, arg, new_task, fault, "Ok")
    /\ UNCHANGED <<projects, workflows, db_projects, db_workflows, clock, procs, throttler, cache>>

(***************************************************************************)
(* server.rs: TaskQueueServer::set_technical_documentation.                *)
(***************************************************************************)
set_technical_documentation(id, doc_path, fault) ==
    WorkflowSetter("set_technical_documentation", id, doc_path,
        [tasks[id] EXCEPT !.development_workflow[1].technical_documentation_path = Some(doc_path)],
        fault)

(***************************************************************************)
(* server.rs: TaskQueueServer::set_test_coverage (coverage in hundredths). *)
(***************************************************************************)
set_test_coverage(id, coverage, fault) ==
    WorkflowSetter("set_test_coverage", id, "",
        [tasks[id] EXCEPT !.development_workflow[1].test_coverage_percentage = Some(coverage)],
        fault)

\* A faulty variant of add_ai_review_report that appends the report and
\* leaves the counter alone.
add_ai_review_report_no_count(id, review, fault) ==
    WorkflowSetter("add_ai_review_report", id, "",
        LET reports == Append(tasks[id].development_workflow[1].ai_review_reports, review)
        IN [tasks[id] EXCEPT !.development_workflow[1].ai_review_reports = reports],
        fault)

(***************************************************************************)
(* server.rs: TaskQueueServer::add_ai_review_report.                       *)
(***************************************************************************)
add_ai_review_report(id, review, fault) ==
    WorkflowSetter("add_ai_review_report", id, "",
        LET reports == Append(tasks[id].development_workflow[1].ai_review_reports, review)
        IN [tasks[id] EXCEPT !.development_workflow[1].ai_review_reports = reports,
                             !.ai_reviews_completed = Len(reports)],
        fault)

(***************************************************************************)
(* server.rs: TaskQueueServer::create_project.  The .tasks file write that *)
(* follows the store is best-effort and changes nothing modelled here.     *)
(***************************************************************************)
create_project(id, name, fault) ==
    LET project == [ id |-> id, name |-> name, status |-> "Planning" ] IN
    /\ projects' = Put(projects, id, project)
    /\ db_projects' = store(db_projects, id, project, fault)
    /\ faulted' = (faulted \/ fault # "none")
    /\ last' = Ret("create_project", id, name, StoreResult(fault))
    /\ UNCHANGED <<tasks, workflows, db_tasks, db_workflows, clock, procs, throttler, cache>>

(***************************************************************************)
(* server.rs: TaskQueueServer::update_project (name and status updates).   *)
(***************************************************************************)
update_project(id, name, status, fault) ==
    /\ IF id \notin DOMAIN projects
       THEN /\ UNCHANGED <<projects, db_projects, faulted>>
            /\ last' = Ret("update_project", id, "", "ProjectNotFound")
       ELSE LET p2 == [projects[id] EXCEPT
                          !.name = IF name = None THEN @ ELSE name[1],
                          !.status = IF status = None THEN @ ELSE status[1]]
            IN /\ projects' = Put(projects, id, p2)
               /\ db_projects' = store(db_projects, id, p2, fault)
               /\ faulted' = (faulted \/ fault # "none")
               /\ last' = Ret("update_project", id, "", StoreResult(fault))
    /\ UNCHANGED <<tasks, workflows, db_tasks, db_workflows, clock, procs, throttler, cache>>

\* A faulty variant of delete_project that deletes the tasks of the project.
delete_project_with_tasks(id, fault) ==
    /\ IF id \notin DOMAIN projects
       THEN /\ UNCHANGED <<projects, tasks, db_projects, faulted>>
            /\ last' = Ret("delete_project", id, "", "ProjectNotFound")
       ELSE /\ projects' = Remove(projects, id)
            /\ tasks' = [t \in { x \in DOMAIN tasks : tasks[x].project_id # Some(id) } |->
                           tasks[t]]
            /\ db_projects' = delete(db_projects, id, fault)
            /\ faulted' = (faulted \/ fault # "none")
            /\ last' = Ret("delete_project", id, "", StoreResult(fault))
    /\ UNCHANGED <<workflows, db_tasks, db_workflows, clock, procs, throttler, cache>>

(***************************************************************************)
(* server.rs: TaskQueueServer::delete_project.  The tasks of the project   *)
(* are rewritten in the map; only storage.delete_project follows.          *)
(***************************************************************************)
delete_project(id, fault) ==
    /\ IF id \notin DOMAIN projects
       THEN /\ UNCHANGED <<projects, tasks, db_projects, faulted>>
            /\ last' = Ret("delete_project", id, "", "ProjectNotFound")
       ELSE /\ projects' = Remove(projects, id)
            /\ tasks' = [t \in DOMAIN tasks |->
                           IF tasks[t].project_id = Some(id)
                           THEN [tasks[t] EXCEPT !.project_id = None]
                           ELSE tasks[t]]
            /\ db_projects' = delete(db_projects, id, fault)
            /\ faulted' = (faulted \/ fault # "none")
            /\ last' = Ret("delete_project", id, "", StoreResult(fault))
    /\ UNCHANGED <<workflows, db_tasks, db_workflows, clock, procs, throttler, cache>>

(***************************************************************************)
(* server.rs: TaskQueueServer::has_cycle, the depth-first search.  visited *)
(* and rec_stack are the two HashSets passed by &mut; the result carries   *)
(* them back with the answer.  deps_from is the tail of the dependency     *)
(* list still to be looked at (from index i on).                           *)
(***************************************************************************)
RECURSIVE has_cycle(_, _, _, _)
RECURSIVE has_cycle_deps(_, _, _, _, _)

\* tasks.iter().find(|t| t.id == task_id): the first entry with that id.
find_task(wf_tasks, task_id) ==
    LET hits == { i \in 1..Len(wf_tasks) : wf_tasks[i].id = task_id } IN
    IF hits = {} THEN None
    ELSE Some(wf_tasks[CHOOSE i \in hits : \A j \in hits : i <= j])

has_cycle_deps(deps, i, wf_tasks, visited, rec_stack) ==
    IF i > Len(deps)
    THEN [cycle |-> FALSE, visited |-> visited, rec_stack |-> rec_stack]
    ELSE IF deps[i] \notin visited
         THEN LET r == has_cycle(deps[i], wf_tasks, visited, rec_stack) IN
              IF r.cycle THEN r
              ELSE has_cycle_deps(deps, i + 1, wf_tasks, r.visited, r.rec_stack)
         ELSE IF deps[i] \in rec_stack
              THEN [cycle |-> TRUE, visited |-> visited, rec_stack |-> rec_stack]
              ELSE has_cycle_deps(deps, i + 1, wf_tasks, visited, rec_stack)

has_cycle(task_id, wf_tasks, visited, rec_stack) ==
    LET v1 == visited \cup {task_id}
        s1 == rec_stack \cup {task_id}
        found == find_task(wf_tasks, task_id)
        r == IF found = None
             THEN [cycle |-> FALSE, visited |-> v1, rec_stack |-> s1]
             ELSE has_cycle_deps(found[1].dependencies, 1, wf_tasks, v1, s1)
    IN IF r.cycle THEN r
       ELSE [cycle |-> FALSE, visited |-> r.visited, rec_stack |-> r.rec_stack \ {task_id}]

(***************************************************************************)
(* server.rs: TaskQueueServer::check_circular_dependencies: the loop over  *)
(* workflow.tasks, from index i on.  TRUE when a cycle is reported.        *)
(***************************************************************************)
RECURSIVE check_from(_, _, _, _)
check_from(wf_tasks, i, visited, rec_stack) ==
    IF i > Len(wf_tasks) THEN FALSE
    ELSE IF wf_tasks[i].id \in visited
         THEN check_from(wf_tasks, i + 1, visited, rec_stack)
         ELSE LET r == has_cycle(wf_tasks[i].id, wf_tasks, visited, rec_stack) IN
              IF r.cycle THEN TRUE
              ELSE check_from(wf_tasks, i + 1, r.visited, r.rec_stack)

check_circular_dependencies(workflow) == check_from(workflow.tasks, 1, {}, {})

(***************************************************************************)
(* server.rs: TaskQueueServer::validate_workflow.                          *)
(***************************************************************************)
validate_workflow(workflow) ==
    IF workflow.name = "" THEN "WorkflowValidationFailed"
    ELSE IF Len(workflow.tasks) = 0 THEN "WorkflowValidationFailed"
    ELSE IF check_circular_dependencies(workflow) THEN "CircularDependency"
    ELSE "Ok"

(***************************************************************************)
(* server.rs: TaskQueueServer::submit_workflow, run without interleaving.  *)
(***************************************************************************)
submit_workflow(workflow, fault) ==
    LET v == validate_workflow(workflow) IN
    /\ IF v # "Ok"
       THEN /\ UNCHANGED <<workflows, db_workflows, faulted>>
            /\ last' = Ret("submit_workflow", workflow.id, workflow.name, v)
       ELSE /\ workflows' = Put(workflows, workflow.id, workflow)
            /\ db_workflows' = store(db_workflows, workflow.id, workflow, fault)
            /\ faulted' = (faulted \/ fault # "none")
            /\ last' = Ret("submit_workflow", workflow.id, workflow.name, StoreResult(fault))
    /\ UNCHANGED <<tasks, projects, db_tasks, db_projects, clock, procs, throttler, cache>>

\* cancel_workflow, approve_workflow and update_workflow_status differ only in
\* the status they write.
SetWorkflowStatus(op, id, status, fault) ==
    /\ IF id \notin DOMAIN workflows
       THEN /\ UNCHANGED <<workflows, db_workflows, faulted>>
            /\ last' = Ret(op, id, status, "WorkflowNotFound")
       ELSE LET w2 == [workflows[id] EXCEPT !.status = status] IN
            /\ workflows' = Put(workflows, id, w2)
            /\ db_workflows' = store(db_workflows, id, w2, fault)
            /\ faulted' = (faulted \/ fault # "none")
            /\ last' = Ret(op, id, status, StoreResult(fault))
    /\ UNCHANGED <<tasks, projects, db_tasks, db_projects, clock, procs, throttler, cache>>

(***************************************************************************)
(* server.rs: cancel_workflow, approve_workflow, update_workflow_status.   *)
(***************************************************************************)
cancel_workflow(id, fault) == SetWorkflowStatus("cancel_workflow", id, "Cancelled", fault)

approve_workflow(id, fault) == SetWorkflowStatus("approve_workflow", id, "Running", fault)

update_workflow_status(id, status, fault) ==
    SetWorkflowStatus("update_workflow_status", id, status, fault)

(***************************************************************************)
(* server.rs: TaskQueueServer::new + load_data_from_storage: the process   *)
(* is started again and the three maps are rebuilt from the three trees.   *)
(***************************************************************************)
load_data_from_storage ==
    /\ tasks' = db_tasks
    /\ workflows' = db_workflows
    /\ projects' = db_projects
    /\ last' = Ret("load_data_from_storage", 0, "", "Ok")
    /\ UNCHANGED <<db_tasks, db_projects, db_workflows, clock, faulted, procs, throttler, cache>>

(***************************************************************************)
(* Two faulty variants of get_effective_task_status: the first maps every  *)
(* workflow status, NotStarted included, through the table; the second     *)
(* reads the status field when no workflow is attached.                    *)
(***************************************************************************)
get_effective_task_status_table_only(task) ==
    IF task.development_workflow # None
    THEN LET ws == task.development_workflow[1].workflow_status IN
         CASE ws = "NotStarted" -> "Planning"
           [] ws = "Planning" -> "Planning"
           [] ws = "InImplementation" -> "Implementation"
           [] ws = "TestCreation" -> "TestCreation"
           [] ws = "Testing" -> "Testing"
           [] ws = "AIReview" -> "AIReview"
           [] ws = "Completed" -> "Completed"
           [] ws = "Failed" -> "Failed"
    ELSE task.current_phase

get_effective_task_status_reads_status(task) ==
    IF task.development_workflow # None
    THEN LET ws == task.development_workflow[1].workflow_status IN
         IF ws = "NotStarted"
         THEN IF task.current_phase \in
                    { "Planning", "Implementation", "TestCreation", "Testing", "AIReview",
                      "Finalized", "Completed", "Failed", "Cancelled" }
              THEN task.current_phase
              ELSE "Planning"
         ELSE CASE ws = "NotStarted" -> "Planning"
                [] ws = "Planning" -> "Planning"
                [] ws = "InImplementation" -> "Implementation"
                [] ws = "TestCreation" -> "TestCreation"
                [] ws = "Testing" -> "Testing"
                [] ws = "AIReview" -> "AIReview"
                [] ws = "Completed" -> "Completed"
                [] ws = "Failed" -> "Failed"
    ELSE task.status

(***************************************************************************)
(* server.rs: TaskQueueServer::get_effective_task_status.                  *)
(***************************************************************************)
get_effective_task_status(task) ==
    IF task.development_workflow # None
    THEN LET ws == task.development_workflow[1].workflow_status IN
         IF ws = "NotStarted"
         THEN IF task.current_phase \in
                    { "Planning", "Implementation", "TestCreation", "Testing", "AIReview",
                      "Finalized", "Completed", "Failed", "Cancelled" }
              THEN task.current_phase
              ELSE "Planning"
         ELSE CASE ws = "NotStarted" -> "Planning"
                [] ws = "Planning" -> "Planning"
                [] ws = "InImplementation" -> "Implementation"
                [] ws = "TestCreation" -> "TestCreation"
                [] ws = "Testing" -> "Testing"
                [] ws = "AIReview" -> "AIReview"
                [] ws = "Completed" -> "Completed"
                [] ws = "Failed" -> "Failed"
    ELSE task.current_phase

\* A faulty variant of the GET /tasks/{id} handler that sends the task as it is
\* kept, its status field included.
get_task_as_kept(id) ==
    /\ last' = Ret("get_task", id, "",
                   IF id \in DOMAIN tasks THEN tasks[id] ELSE "NOT_FOUND")
    /\ UNCHANGED <<tasks, projects, workflows, db_tasks, db_projects, db_workflows,
                   clock, faulted, procs, throttler, cache>>

(***************************************************************************)
(* server.rs: the GET /tasks/{id} handler.  The task is cloned and the     *)
(* clone's status is overwritten with the effective status; the clone is   *)
(* what the caller is sent.                                                *)
(***************************************************************************)
get_task(id) ==
    /\ last' = Ret("get_task", id, "",
                   IF id \in DOMAIN tasks
                   THEN [tasks[id] EXCEPT !.status = get_effective_task_status(tasks[id])]
                   ELSE "NOT_FOUND")
    /\ UNCHANGED <<tasks, projects, workflows, db_tasks, db_projects, db_workflows,
                   clock, faulted, procs, throttler, cache>>

(***************************************************************************)
(* The initial state: TaskQueueServer::new over an empty database.         *)
(***************************************************************************)
\* No call is in flight.
NoProcs == EmptyMap

\* No write guard is held: Throttler::new (rate_limiting.rs) for its two
\* locks, TaskQueueServer::new (server.rs) for tasks and projects.
Unlocked ==
    [ active_requests |-> None, request_queue |-> None, tasks |-> None, projects |-> None ]

Throttler_new ==
    /\ active_requests = EmptyMap
    /\ request_queue = << >>
    /\ guards = Unlocked

\* cache.rs: CacheConfig::default (Lru) with the model's sizes, and Cache::new.
max_size == 2

default_ttl == Some(2)

Cache_new ==
    /\ data = EmptyMap
    /\ config = [ max_size |-> max_size, eviction_strategy |-> "Lru", default_ttl |-> default_ttl ]

NoCall == [ n |-> 0, op |-> "new", id |-> 0, arg |-> "", result |-> "Ok" ]

Init ==
    /\ tasks = EmptyMap
    /\ projects = EmptyMap
    /\ workflows = EmptyMap
    /\ db_tasks = EmptyMap
    /\ db_projects = EmptyMap
    /\ db_workflows = EmptyMap
    /\ clock = 0
    /\ faulted = FALSE
    /\ procs = NoProcs
    /\ Throttler_new
    /\ Cache_new
    /\ last = NoCall

\* Uuid::new_v4(): an id no task (project) in memory or in the store carries.
\* Fresh ids are interchangeable, so the least one is taken.
Least(S) == { x \in S : \A y \in S : x <= y }

FreshTaskIds == Least(TaskIds \ (DOMAIN tasks \cup DOMAIN db_tasks))

FreshProjectIds == Least(ProjectIds \ (DOMAIN projects \cup DOMAIN db_projects))

FreshWorkflowIds == Least(WorkflowIds \ (DOMAIN workflows \cup DOMAIN db_workflows))

\* The status names PUT /tasks/{id}/status accepts (server.rs, set_task_status handler).
SettableStatuses ==
    { "Planning", "Implementation", "TestCreation", "Testing", "AIReview", "Finalized",
      "Cancelled", "Failed" }

\* One AI review report (model name and verdict).
Reviews == { [ model_name |-> "m1", approved |-> TRUE ] }

ReviewsLeft(id) ==
    id \in DOMAIN tasks /\ tasks[id].ai_reviews_completed < MaxReviews

(***************************************************************************)
(* Spec: the lifecycle of a task.  One project is created, one task at a   *)
(* time is submitted to it and driven through the phase machine by every   *)
(* operation that writes status, current_phase, phases or the review       *)
(* counter.  The storage engine does not fail here (SpecStore has the      *)
(* faults), so each call is decided by the phase machine alone.            *)
(***************************************************************************)
CreateProject ==
    \E id \in FreshProjectIds :
        projects = EmptyMap /\ create_project(id, "alpha", "none")

SubmitTask ==
    \E id \in FreshTaskIds, p \in DOMAIN projects, required \in {1, default_ai_reviews_required} :
        /\ tasks = EmptyMap
        /\ submit_task(to_task(id, "a", "c1", "d", Some(p), "Normal", required, clock), "none")

SetTaskStatus ==
    \E id \in TaskIds, st \in SettableStatuses : set_task_status(id, st, "none")

AdvanceTaskPhase ==
    \E id \in TaskIds : advance_task_phase(id, "none")

UpdateTaskStatus ==
    \E id \in TaskIds, st \in SettableStatuses \cup {"Pending", "Running", "Completed"} :
        update_task(id, None, None, None, None, Some(st), None, "none")

\* POST /tasks/upsert: creates the task of that name or rewrites its command.
UpsertTask ==
    \E existing \in {None} \cup {Some(i) : i \in DOMAIN tasks}, id \in FreshTaskIds,
       p \in DOMAIN projects, command \in {"c1", "c2"} :
        /\ existing = None => tasks = EmptyMap
        /\ upsert_task(existing, id, "a", command, "d", p, "Normal", "none")

CancelTask ==
    \E id \in TaskIds : cancel_task(id, "stop", "none")

RetryTask ==
    \E id \in TaskIds, reset \in BOOLEAN : retry_task(id, reset, "none")

AddAIReviewReport ==
    \E id \in TaskIds, review \in Reviews :
        ReviewsLeft(id) /\ add_ai_review_report(id, review, "none")

Next ==
    \/ CreateProject
    \/ SubmitTask
    \/ UpsertTask
    \/ SetTaskStatus
    \/ AdvanceTaskPhase
    \/ UpdateTaskStatus
    \/ CancelTask
    \/ RetryTask
    \/ AddAIReviewReport

Spec == Init /\ [][Next]_vars

(***************************************************************************)
(* SpecTransition: the transition table, pair by pair.  The service starts *)
(* over a database that holds one project and one task in any of the nine  *)
(* phases, with any number of reviews done; then set_task_status is called *)
(* with any of the nine phases.                                            *)
(***************************************************************************)
Phases ==
    { "Planning", "Implementation", "TestCreation", "Testing", "AIReview", "Finalized",
      "Completed", "Failed", "Cancelled" }

\* A stored task found in the given phase.
TaskInPhase(id, phase, completed, required) ==
    [ to_task(id, "a", "c1", "d", Some(1), "Normal", required, 0) EXCEPT
        !.status = phase,
        !.current_phase = phase,
        !.phases = << TaskPhase(phase, 0) >>,
        !.ai_reviews_completed = completed,
        !.development_workflow[1].ai_review_reports =
            [ i \in 1..completed |-> [ model_name |-> "m1", approved |-> TRUE ] ] ]

OneProject == Put(EmptyMap, 1, [ id |-> 1, name |-> "alpha", status |-> "Planning" ])

InitTransition ==
    \E phase \in Phases, completed \in 0..MaxReviews, required \in {1, default_ai_reviews_required} :
        /\ tasks = Put(EmptyMap, 1, TaskInPhase(1, phase, completed, required))
        /\ db_tasks = tasks
        /\ projects = OneProject
        /\ db_projects = projects
        /\ workflows = EmptyMap
        /\ db_workflows = EmptyMap
        /\ clock = 0
        /\ faulted = FALSE
        /\ procs = NoProcs
        /\ Throttler_new
        /\ Cache_new
        /\ last = NoCall

SetAnyStatus ==
    \E id \in TaskIds, st \in Phases : set_task_status(id, st, "none")

NextTransition == SetAnyStatus

SpecTransition == InitTransition /\ [][NextTransition]_vars

\* The table of legal transitions, as the specification lists it.
LegalEdges ==
    { <<"Planning", "Implementation">>, <<"Implementation", "TestCreation">>,
      <<"TestCreation", "Testing">>, <<"Testing", "AIReview">>,
      <<"AIReview", "Implementation">>, <<"Failed", "Implementation">>,
      <<"Failed", "Planning">> }

InTable(task, to) ==
    \/ <<task.current_phase, to>> \in LegalEdges
    \/ /\ task.current_phase = "AIReview"
       /\ to = "Finalized"
       /\ task.ai_reviews_completed >= task.ai_reviews_required
    \/ to = "Cancelled"
    \/ to = task.current_phase

\* C1: for every pair (from, to) of the nine phases, SetStatus(t, to) on a task
\* whose current_phase is from succeeds, and leaves the task in to, exactly when
\* the pair is in the table of legal transitions; for every other pair it fails
\* with InvalidStatusTransition and the task is as it was.
C1_SetStatusFollowsTable ==
    [][ \A id \in DOMAIN tasks :
          (last'.op = "set_task_status" /\ last'.id = id) =>
              IF InTable(tasks[id], last'.arg)
              THEN last'.result = "Ok" /\ tasks'[id].current_phase = last'.arg
              ELSE last'.result = "InvalidStatusTransition" /\ tasks' = tasks ]_vars

\* A failed task has been sent back to planning.
C1_Witness ==
    /\ last.op = "set_task_status" /\ last.arg = "Planning" /\ last.result = "Ok"
    /\ 1 \in DOMAIN tasks
    /\ tasks[1].phases[1].phase = "Failed"
    /\ tasks[1].current_phase = "Planning"

(***************************************************************************)
(* Properties of the lifecycle (Spec).                                     *)
(***************************************************************************)
\* C2: a task whose current_phase is Finalized always has ai_reviews_completed
\* >= ai_reviews_required; AdvancePhase and SetStatus(Finalized) on a task in
\* AIReview are refused and leave the task as it was, in AIReview, when reviews
\* are missing, and succeed and land on Finalized when the count is reached.
C2_FinalizedNeedsReviews ==
    [][ /\ \A id \in DOMAIN tasks' :
              tasks'[id].current_phase = "Finalized" =>
                  tasks'[id].ai_reviews_completed >= tasks'[id].ai_reviews_required
        /\ \A id \in DOMAIN tasks :
              ( /\ tasks[id].current_phase = "AIReview"
                /\ last'.id = id
                /\ \/ last'.op = "advance_task_phase"
                   \/ last'.op = "set_task_status" /\ last'.arg = "Finalized" ) =>
                  IF tasks[id].ai_reviews_completed >= tasks[id].ai_reviews_required
                  THEN /\ tasks'[id].current_phase = "Finalized"
                       /\ last'.result = IF last'.op = "advance_task_phase" THEN "Ok(true)" ELSE "Ok"
                  ELSE /\ tasks' = tasks
                       /\ last'.result = IF last'.op = "advance_task_phase"
                                         THEN "Ok(false)" ELSE "InvalidStatusTransition" ]_vars

\* The advance that finalizes a task holding exactly the reviews it needs.
C2_Witness ==
    /\ last.op = "advance_task_phase" /\ last.result = "Ok(true)"
    /\ \E id \in DOMAIN tasks :
          /\ last.id = id
          /\ tasks[id].current_phase = "Finalized"
          /\ tasks[id].ai_reviews_completed = tasks[id].ai_reviews_required

\* C3: after any sequence of service operations on a task, its current_phase is
\* the phase name of the last entry of its phases history.
C3_CurrentPhaseIsLastEntry ==
    \A id \in DOMAIN tasks :
        /\ Len(tasks[id].phases) > 0
        /\ tasks[id].phases[Len(tasks[id].phases)].phase = tasks[id].current_phase

(***************************************************************************)
(* SpecLadder: the development-workflow ladder of a task.  One task is     *)
(* submitted and then worked on through the workflow operations (advance,  *)
(* documentation path, test coverage, review reports) while its phase is   *)
(* advanced or it is cancelled.                                            *)
(***************************************************************************)
DocPaths == { "docs/a.md" }

Coverages == { 7500, 9500 }

AdvanceDevelopmentWorkflow ==
    \E id \in TaskIds : advance_development_workflow(id, "none")

SetTechnicalDocumentation ==
    \E id \in TaskIds, doc_path \in DocPaths : set_technical_documentation(id, doc_path, "none")

SetTestCoverage ==
    \E id \in TaskIds, coverage \in Coverages : set_test_coverage(id, coverage, "none")

NextLadder ==
    \/ CreateProject
    \/ SubmitTask
    \/ AdvanceDevelopmentWorkflow
    \/ SetTechnicalDocumentation
    \/ SetTestCoverage
    \/ AddAIReviewReport
    \/ AdvanceTaskPhase
    \/ CancelTask

SpecLadder == Init /\ [][NextLadder]_vars

\* C4: every task with a development workflow attached has ai_reviews_completed
\* equal to the number of entries of ai_review_reports, and each successful
\* AddAIReviewReport appends the report given and raises the counter by one.
C4_CounterIsReportCount ==
    [][ /\ \A id \in DOMAIN tasks' :
              tasks'[id].development_workflow # None =>
                  tasks'[id].ai_reviews_completed =
                      Len(tasks'[id].development_workflow[1].ai_review_reports)
        /\ \A id \in DOMAIN tasks :
              (last'.op = "add_ai_review_report" /\ last'.id = id /\ last'.result = "Ok") =>
                  /\ tasks'[id].ai_reviews_completed = tasks[id].ai_reviews_completed + 1
                  /\ \E review \in Reviews :
                        tasks'[id].development_workflow[1].ai_review_reports =
                            Append(tasks[id].development_workflow[1].ai_review_reports, review) ]_vars

\* A second report has been added to a task whose workflow has moved on.
C4_Witness ==
    /\ last.op = "add_ai_review_report" /\ last.result = "Ok"
    /\ \E id \in DOMAIN tasks :
          /\ last.id = id
          /\ tasks[id].ai_reviews_completed = 2
          /\ Len(tasks[id].development_workflow[1].ai_review_reports) = 2
          /\ tasks[id].development_workflow[1].workflow_status = "AIReview"

(***************************************************************************)
(* SpecEffective: the effective status.  The service starts over a store   *)
(* that holds two tasks with the same current_phase (any TaskStatus) and   *)
(* the same workflow (absent, or in any workflow status) whose status      *)
(* fields differ freely; the tasks are read, cancelled and retried.        *)
(***************************************************************************)
StoredTask(id, phase, status, wf) ==
    [ to_task(id, "a", "c1", "d", Some(1), "Normal", default_ai_reviews_required, 0) EXCEPT
        !.status = status,
        !.current_phase = phase,
        !.phases = << TaskPhase(phase, 0) >>,
        !.development_workflow =
            IF wf = None THEN None
            ELSE Some([ default_development_workflow[1] EXCEPT !.workflow_status = wf[1] ]) ]

InitEffective ==
    \E phase \in TaskStatus, status1 \in TaskStatus, status2 \in {"Pending", "Finalized"},
       wf \in {None} \cup { Some(ws) : ws \in DevelopmentWorkflowStatus } :
        /\ tasks = Put(Put(EmptyMap, 1, StoredTask(1, phase, status1, wf)),
                       2, StoredTask(2, phase, status2, wf))
        /\ db_tasks = tasks
        /\ projects = OneProject
        /\ db_projects = projects
        /\ workflows = EmptyMap
        /\ db_workflows = EmptyMap
        /\ clock = 0
        /\ faulted = FALSE
        /\ procs = NoProcs
        /\ Throttler_new
        /\ Cache_new
        /\ last = NoCall

GetTask ==
    \E id \in TaskIds : get_task(id)

NextEffective ==
    \/ GetTask
    \/ CancelTask
    \/ RetryTask

SpecEffective == InitEffective /\ [][NextEffective]_vars

\* The effective status as the specification defines it.
LegacyLabels ==
    { "AnalysisAndDocumentation", "InDiscussion", "InImplementation", "InReview", "InTesting" }

ExecutionOnlyLabels == { "Pending", "Running", "WaitingForDependencies" }

WorkflowImage ==
    [ ws \in DevelopmentWorkflowStatus \ {"NotStarted"} |->
        IF ws = "InImplementation" THEN "Implementation" ELSE ws ]

ExpectedEffective(task) ==
    IF task.development_workflow = None THEN task.current_phase
    ELSE IF task.development_workflow[1].workflow_status = "NotStarted"
         THEN IF task.current_phase \in LegacyLabels \cup ExecutionOnlyLabels
              THEN "Planning" ELSE task.current_phase
         ELSE WorkflowImage[task.development_workflow[1].workflow_status]

\* C5: the effective status of every task is its current_phase when no workflow
\* is attached, its current_phase with the legacy and execution-only labels
\* mapped to Planning when the workflow is NotStarted, and otherwise the image
\* of workflow_status; current_phase = Implementation reports Planning under
\* workflow_status = Planning and Implementation under NotStarted.  It is the
\* status a read of the task returns.
C5_EffectiveStatusMapping ==
    /\ \A id \in DOMAIN tasks :
          /\ get_effective_task_status(tasks[id]) = ExpectedEffective(tasks[id])
          /\ ( /\ tasks[id].current_phase = "Implementation"
               /\ tasks[id].development_workflow # None ) =>
                 /\ tasks[id].development_workflow[1].workflow_status = "Planning" =>
                       get_effective_task_status(tasks[id]) = "Planning"
                 /\ tasks[id].development_workflow[1].workflow_status = "NotStarted" =>
                       get_effective_task_status(tasks[id]) = "Implementation"
    /\ (last.op = "get_task" /\ last.id \in DOMAIN tasks) =>
          last.result.status = ExpectedEffective(tasks[last.id])

\* A task in Implementation whose workflow is in Planning has been read as Planning.
C5_Witness ==
    /\ last.op = "get_task" /\ last.id \in DOMAIN tasks
    /\ tasks[last.id].current_phase = "Implementation"
    /\ tasks[last.id].development_workflow # None
    /\ tasks[last.id].development_workflow[1].workflow_status = "Planning"
    /\ last.result.status = "Planning"

SameEffectiveInputs(t1, t2) ==
    /\ (t1.development_workflow = None) = (t2.development_workflow = None)
    /\ t1.development_workflow # None =>
          t1.development_workflow[1].workflow_status = t2.development_workflow[1].workflow_status
    /\ t1.current_phase = t2.current_phase

\* C6: the task a read returns, whose status field is the effective status, has
\* that same effective status when it is computed again; and two tasks with the
\* same current_phase and the same workflow presence and workflow status have
\* the same effective status, whatever their status and result fields hold.
C6_EffectiveIdempotentDeterministic ==
    /\ (last.op = "get_task" /\ last.id \in DOMAIN tasks) =>
          /\ last.result.status = get_effective_task_status(tasks[last.id])
          /\ get_effective_task_status(last.result) = last.result.status
    /\ \A i, j \in DOMAIN tasks :
          SameEffectiveInputs(tasks[i], tasks[j]) =>
              get_effective_task_status(tasks[i]) = get_effective_task_status(tasks[j])

\* Two tasks alike but for status and result, one of them cancelled, one read.
C6_Witness ==
    /\ last.op = "get_task" /\ last.id = 2
    /\ {1, 2} \subseteq DOMAIN tasks
    /\ SameEffectiveInputs(tasks[1], tasks[2])
    /\ tasks[1].status = "Cancelled" /\ tasks[1].result # None
    /\ tasks[2].status = "Pending" /\ tasks[2].result = None
    /\ tasks[2].current_phase = "Testing"
    /\ last.result.status = "Testing"

(***************************************************************************)
(* SpecStore: the write-through to the storage engine.  Projects, tasks    *)
(* and workflows are created, changed and deleted, one call at a time;     *)
(* any call's storage step may fail, at the insert or at the flush, once   *)
(* in a run; the service may be stopped and started again at any point.    *)
(* One project, one task and one workflow are alive at a time.             *)
(***************************************************************************)
\* A workflow of one embedded task without dependencies.
SimpleWorkflow(id) ==
    [ id |-> id, name |-> "w", tasks |-> << [ id |-> 1, dependencies |-> <<>> ] >>,
      status |-> "Pending" ]

\* The storage engine fails at most once in a run.
MayFail(fault) == fault # "none" => ~faulted

StoreCreateProject ==
    \E id \in FreshProjectIds, fault \in StorageFaults :
        /\ projects = EmptyMap
        /\ MayFail(fault)
        /\ create_project(id, "alpha", fault)

StoreUpdateProject ==
    \E id \in ProjectIds, fault \in StorageFaults :
        MayFail(fault) /\ update_project(id, None, Some("Active"), fault)

StoreDeleteProject ==
    \E id \in ProjectIds, fault \in StorageFaults :
        MayFail(fault) /\ delete_project(id, fault)

StoreSubmitTask ==
    \E id \in FreshTaskIds, p \in ProjectIds, fault \in StorageFaults :
        /\ tasks = EmptyMap
        /\ MayFail(fault)
        /\ submit_task(to_task(id, "a", "c1", "d", Some(p), "Normal",
                               default_ai_reviews_required, clock), fault)

StoreUpdateTask ==
    \E id \in TaskIds, fault \in StorageFaults :
        MayFail(fault) /\ update_task(id, None, Some("c2"), None, None, None, None, fault)

StoreCancelTask ==
    \E id \in TaskIds, fault \in StorageFaults :
        MayFail(fault) /\ cancel_task(id, "stop", fault)

StoreDeleteTask ==
    \E id \in TaskIds, fault \in StorageFaults :
        MayFail(fault) /\ delete_task(id, fault)

StoreSubmitWorkflow ==
    \E id \in FreshWorkflowIds, fault \in StorageFaults :
        /\ workflows = EmptyMap
        /\ MayFail(fault)
        /\ submit_workflow(SimpleWorkflow(id), fault)

StoreCancelWorkflow ==
    \E id \in WorkflowIds, fault \in StorageFaults :
        MayFail(fault) /\ cancel_workflow(id, fault)

Restart == load_data_from_storage

NextStore ==
    \/ StoreCreateProject
    \/ StoreUpdateProject
    \/ StoreDeleteProject
    \/ StoreSubmitTask
    \/ StoreUpdateTask
    \/ StoreCancelTask
    \/ StoreDeleteTask
    \/ StoreSubmitWorkflow
    \/ StoreCancelWorkflow
    \/ Restart

SpecStore == Init /\ [][NextStore]_vars

\* C7: while the storage engine has not failed, after every successful
\* mutation the store holds exactly the in-memory value of every project,
\* task and workflow, so that a restart reloads the same three maps.
C7_StoreMatchesMemory ==
    (~faulted /\ last.result = "Ok") =>
        /\ db_tasks = tasks
        /\ db_projects = projects
        /\ db_workflows = workflows

\* C8: a call whose storage step fails returns a storage error and leaves the
\* three in-memory maps exactly as they were before the call.
C8_FailedStoreRollsBack ==
    [][ last'.result = "StorageError" =>
            /\ tasks' = tasks
            /\ projects' = projects
            /\ workflows' = workflows ]_vars

(***************************************************************************)
(* SpecConcurrent: calls on the same task that overlap.  Submissions run   *)
(* step by step, so that other calls run between their steps.  upsert_task,*)
(* update_task and delete_task take the tasks write lock on entry and keep *)
(* it until they return, their storage call included, so each of them is   *)
(* one step.  The storage engine does not fail, and the calls made are     *)
(* calls that succeed: on a project that exists, on a task that is in the  *)
(* map.                                                                    *)
(***************************************************************************)
\* The ids of the tasks being submitted.
InFlightIds == { procs[c].task.id : c \in DOMAIN procs }

ConcSubmitValidate ==
    \E c \in Calls, p \in DOMAIN projects,
       id \in Least(TaskIds \ (DOMAIN tasks \cup DOMAIN db_tasks \cup InFlightIds)) :
        submit_task_validate(c, to_task(id, "a", "c1", "d", Some(p), "Normal",
                                        default_ai_reviews_required, clock))

ConcSubmitInsert ==
    \E c \in Calls : submit_task_insert(c)

ConcSubmitStore ==
    \E c \in Calls : submit_task_store(c, "none")

ConcUpsertTask ==
    \E id \in DOMAIN tasks, p \in DOMAIN projects :
        upsert_task(Some(id), id, "a", "c2", "d", p, "High", "none")

ConcUpdateTask ==
    \E id \in DOMAIN tasks :
        update_task(id, None, None, Some("d2"), None, None, None, "none")

ConcDeleteTask ==
    \E id \in DOMAIN tasks : delete_task(id, "none")

NextConcurrent ==
    \/ CreateProject
    \/ ConcSubmitValidate
    \/ ConcSubmitInsert
    \/ ConcSubmitStore
    \/ ConcUpsertTask
    \/ ConcUpdateTask
    \/ ConcDeleteTask

SpecConcurrent == Init /\ [][NextConcurrent]_vars

\* C9: however calls on the same task interleave, once every call has returned
\* (all of them successfully) the store's value for each task is its in-memory
\* value: both present and equal, or both absent.
C9_StoreMatchesMemoryWhenQuiet ==
    procs = NoProcs =>
        \A id \in TaskIds :
            /\ (id \in DOMAIN tasks) = (id \in DOMAIN db_tasks)
            /\ id \in DOMAIN tasks => db_tasks[id] = tasks[id]

(***************************************************************************)
(* SpecWorkflow: workflows.  A workflow is submitted with any name (empty  *)
(* or not) and any list of embedded tasks, each with an id and a list of   *)
(* dependencies on task ids; a stored workflow is cancelled, approved and  *)
(* has its status set.  One workflow is followed at a time.                *)
(***************************************************************************)
SeqsUpTo(S, n) == UNION { [1..k -> S] : k \in 0..n }

\* An embedded task, reduced to what validate_workflow reads of it.
WorkflowTasks ==
    { [ id |-> i, dependencies |-> deps ] :
        i \in TaskIds, deps \in SeqsUpTo(TaskIds, MaxDependencies) }

WorkflowInputs(ids) ==
    { [ id |-> i, name |-> n, tasks |-> ts, status |-> "Pending" ] :
        i \in ids, n \in {"", "w"}, ts \in SeqsUpTo(WorkflowTasks, MaxWorkflowTasks) }

SubmitWorkflow ==
    \E w \in WorkflowInputs(FreshWorkflowIds) :
        workflows = EmptyMap /\ submit_workflow(w, "none")

CancelWorkflow ==
    \E id \in WorkflowIds : cancel_workflow(id, "none")

ApproveWorkflow ==
    \E id \in WorkflowIds : approve_workflow(id, "none")

UpdateWorkflowStatus ==
    \E id \in WorkflowIds, status \in {"Pending", "Completed", "Failed"} :
        update_workflow_status(id, status, "none")

NextWorkflow ==
    \/ SubmitWorkflow
    \/ CancelWorkflow
    \/ ApproveWorkflow
    \/ UpdateWorkflowStatus

SpecWorkflow == Init /\ [][NextWorkflow]_vars

\* The dependency graph of a workflow: an edge from each embedded task's id to
\* each id its dependencies name.
DependencyEdges(w) ==
    UNION { { <<w.tasks[i].id, w.tasks[i].dependencies[j]>> :
                j \in 1..Len(w.tasks[i].dependencies) } :
            i \in 1..Len(w.tasks) }

\* The ids that can be reached from the ids of S along the edges of E.
RECURSIVE Reach(_, _)
Reach(S, E) ==
    LET S2 == S \cup { e[2] : e \in { x \in E : x[1] \in S } } IN
    IF S2 = S THEN S ELSE Reach(S2, E)

GraphHasCycle(w) ==
    \E e \in DependencyEdges(w) : e[1] \in Reach({e[2]}, DependencyEdges(w))

\* C10: a workflow with a non-empty name and a non-empty task list is stored,
\* in memory and in the store, and its submission succeeds, when the graph of
\* its embedded tasks' dependencies has no cycle; when the graph has a cycle
\* the submission fails with CircularDependency and nothing is stored.
C10_CyclesRefused ==
    [][ \A w \in WorkflowInputs(WorkflowIds) :
          (w.name # "" /\ Len(w.tasks) > 0 /\ submit_workflow(w, "none")) =>
              IF GraphHasCycle(w)
              THEN /\ last'.result = "CircularDependency"
                   /\ workflows' = workflows
                   /\ db_workflows' = db_workflows
              ELSE /\ last'.result = "Ok"
                   /\ workflows' = Put(workflows, w.id, w)
                   /\ db_workflows' = Put(db_workflows, w.id, w) ]_vars

(***************************************************************************)
(* A faulty variant of condition_matches in which a Completion dependency  *)
(* is met by a Success result only.                                        *)
(***************************************************************************)
condition_matches_success_only(condition, result) ==
    CASE condition = "Success" /\ result.kind = "Success" -> TRUE
      [] condition = "Failure" /\ result.kind = "Failure" -> TRUE
      [] condition = "Completion" /\ result.kind = "Success" -> TRUE
      [] OTHER -> FALSE

(***************************************************************************)
(* core.rs: Task::is_ready.  condition_matches is the match on the pair    *)
(* (dependency.condition, result): TRUE where the arm is `continue`.  A    *)
(* TaskResult is reduced to its variant (kind); a Dependency to task_id,   *)
(* condition and required.  is_ready_from is the loop from index i on.     *)
(***************************************************************************)
condition_matches(condition, result) ==
    CASE condition = "Success" /\ result.kind = "Success" -> TRUE
      [] condition = "Failure" /\ result.kind = "Failure" -> TRUE
      [] condition = "Completion" -> TRUE
      [] OTHER -> FALSE

RECURSIVE is_ready_from(_, _, _)
is_ready_from(dependencies, i, completed_tasks) ==
    IF i > Len(dependencies) THEN TRUE
    ELSE IF dependencies[i].task_id \in DOMAIN completed_tasks
         THEN IF condition_matches(dependencies[i].condition,
                                   completed_tasks[dependencies[i].task_id])
              THEN is_ready_from(dependencies, i + 1, completed_tasks)
              ELSE FALSE
         ELSE FALSE

is_ready(task, completed_tasks) == is_ready_from(task.dependencies, 1, completed_tasks)

(***************************************************************************)
(* core.rs: Workflow::get_ready_tasks: the embedded tasks that are ready,  *)
(* in the order of the list.                                               *)
(***************************************************************************)
RECURSIVE filter_ready(_, _, _)
filter_ready(wf_tasks, i, completed_tasks) ==
    IF i > Len(wf_tasks) THEN <<>>
    ELSE IF is_ready(wf_tasks[i], completed_tasks)
         THEN <<wf_tasks[i]>> \o filter_ready(wf_tasks, i + 1, completed_tasks)
         ELSE filter_ready(wf_tasks, i + 1, completed_tasks)

get_ready_tasks(workflow, completed_tasks) == filter_ready(workflow.tasks, 1, completed_tasks)

(***************************************************************************)
(* SpecReady: readiness.  A workflow is held whose embedded tasks depend,  *)
(* under any condition and either value of required, on two upstream tasks *)
(* (ids 1 and 2); is_ready and get_ready_tasks are then called with every  *)
(* map of completed results of the upstream tasks.  Either one task with   *)
(* up to MaxDependencies dependencies (on different upstream tasks) is     *)
(* held, or up to MaxWorkflowTasks tasks with at most one dependency each, *)
(* a required one.                                                         *)
(***************************************************************************)
Upstream == {1, 2}

DependencyCondition == { "Success", "Failure", "Completion", "Custom" }

TaskResults == { [ kind |-> k ] : k \in { "Success", "Failure", "Cancelled" } }

Dependencies ==
    { [ task_id |-> u, condition |-> cond, required |-> r ] :
        u \in Upstream, cond \in DependencyCondition, r \in BOOLEAN }

CompletedMaps == UNION { [ U -> TaskResults ] : U \in SUBSET Upstream }

DependentTask(id, deps) == [ id |-> id, name |-> "t", dependencies |-> deps ]

\* Dependency lists of up to MaxDependencies entries, one per upstream task at
\* most.
DependencyLists ==
    { deps \in SeqsUpTo(Dependencies, MaxDependencies) :
        \A i, j \in 1..Len(deps) : deps[i].task_id = deps[j].task_id => i = j }

ReadyTaskLists ==
    { << DependentTask(3, deps) >> : deps \in DependencyLists }
    \cup
    UNION { { [ i \in 1..n |-> DependentTask(2 + i, ds[i]) ] :
                ds \in [ 1..n -> SeqsUpTo({ d \in Dependencies : d.required }, 1) ] } :
            n \in 0..MaxWorkflowTasks }

InitReady ==
    \E ts \in ReadyTaskLists :
        /\ workflows = Put(EmptyMap, 1, [ id |-> 1, name |-> "w", tasks |-> ts, status |-> "Pending" ])
        /\ db_workflows = workflows
        /\ tasks = EmptyMap
        /\ db_tasks = EmptyMap
        /\ projects = EmptyMap
        /\ db_projects = EmptyMap
        /\ clock = 0
        /\ faulted = FALSE
        /\ procs = NoProcs
        /\ Throttler_new
        /\ Cache_new
        /\ last = NoCall

\* Neither call changes anything: the answer is all there is to see.
Answer(op, id, arg, result) ==
    /\ last' = Ret(op, id, arg, result)
    /\ UNCHANGED <<tasks, projects, workflows, db_tasks, db_projects, db_workflows,
                   clock, faulted, procs, throttler, cache>>

IsReady ==
    \E w \in DOMAIN workflows, completed_tasks \in CompletedMaps :
        \E i \in 1..Len(workflows[w].tasks) :
            Answer("is_ready", i, completed_tasks,
                   is_ready(workflows[w].tasks[i], completed_tasks))

GetReadyTasks ==
    \E w \in DOMAIN workflows, completed_tasks \in CompletedMaps :
        Answer("get_ready_tasks", w, completed_tasks,
               get_ready_tasks(workflows[w], completed_tasks))

NextReady ==
    \/ IsReady
    \/ GetReadyTasks

SpecReady == InitReady /\ [][NextReady]_vars

\* Whether a recorded result satisfies a dependency condition, as the
\* specification has it.
Satisfies(condition, result) ==
    \/ condition = "Completion" /\ result.kind \in { "Success", "Failure", "Cancelled" }
    \/ condition = "Success" /\ result.kind = "Success"
    \/ condition = "Failure" /\ result.kind = "Failure"

DependencyMet(d, completed_tasks) ==
    /\ d.task_id \in DOMAIN completed_tasks
    /\ Satisfies(d.condition, completed_tasks[d.task_id])

DependenciesOf(task) == { task.dependencies[j] : j \in 1..Len(task.dependencies) }

\* C11: t.is_ready(c) is true exactly when every dependency of t whose required
\* flag is set has an entry in c that satisfies its condition; a dependency
\* with required = false does not affect the answer.
C11_ReadyIffRequiredMet ==
    last.op = "is_ready" =>
        last.result =
            ( \A d \in DependenciesOf(workflows[1].tasks[last.id]) :
                  d.required => DependencyMet(d, last.arg) )

\* C12: with conditions Success, Failure and Completion only, a task is ready
\* exactly when every dependency names a task with a recorded result that the
\* condition accepts (Completion: any result; Success: Success; Failure:
\* Failure); a task without dependencies is ready; and get_ready_tasks
\* returns exactly the embedded tasks that are ready, in their order.
C12_ReadyIffAllMet ==
    LET ts == workflows[1].tasks
        Plain(t) == \A d \in DependenciesOf(t) : d.condition # "Custom"
        Ready(t, c) == \A d \in DependenciesOf(t) : DependencyMet(d, c)
    IN /\ (last.op = "is_ready" /\ Plain(ts[last.id])) =>
              /\ last.result = Ready(ts[last.id], last.arg)
              /\ Len(ts[last.id].dependencies) = 0 => last.result = TRUE
       /\ last.op = "get_ready_tasks" =>
              /\ \A i \in 1..Len(ts) :
                    is_ready(ts[i], last.arg) =
                        (\E k \in 1..Len(last.result) : last.result[k] = ts[i])
              /\ \A k \in 1..Len(last.result) :
                    \E i \in 1..Len(ts) : last.result[k] = ts[i]
              /\ Len(last.result) <= Len(ts)
              /\ \A i \in 1..Len(ts) :
                    Plain(ts[i]) =>
                        (Ready(ts[i], last.arg) =
                            (\E k \in 1..Len(last.result) : last.result[k] = ts[i]))

\* Of two embedded tasks, only the one whose Completion dependency has a
\* Cancelled result recorded is returned as ready.
C12_Witness ==
    /\ last.op = "get_ready_tasks"
    /\ Len(workflows[1].tasks) = 2
    /\ Len(last.result) = 1
    /\ last.result[1] = workflows[1].tasks[2]
    /\ \E d \in DependenciesOf(workflows[1].tasks[2]) :
          /\ d.condition = "Completion"
          /\ d.task_id \in DOMAIN last.arg
          /\ last.arg[d.task_id].kind = "Cancelled"

(***************************************************************************)
(* SpecProjects: projects and the tasks that point at them.  Projects are  *)
(* created and deleted (by any id, known or not), tasks are submitted to   *)
(* any project id (existing or not, present or absent) under any name and  *)
(* command (empty or not), read back, and cancelled.                       *)
(***************************************************************************)
AnyCreateProject ==
    \E id \in FreshProjectIds : create_project(id, "alpha", "none")

DeleteProject ==
    \E id \in ProjectIds : delete_project(id, "none")

\* The fields of a POST /tasks body: a name and a command that may be empty,
\* a project_id that may be absent or name no project, a priority.
SubmitNames == { "", "a" }

SubmitCommands == { "", "c1" }

SubmitProjectIds == {None} \cup { Some(p) : p \in ProjectIds }

SubmitPriorities == { "High" }

\* Uuid::new_v4() in to_task: the id is drawn whether or not the task is accepted.
AnySubmitTask ==
    \E id \in FreshTaskIds, name \in SubmitNames, command \in SubmitCommands,
       project_id \in SubmitProjectIds, priority \in SubmitPriorities :
        submit_task(to_task(id, name, command, "d", project_id, priority,
                            default_ai_reviews_required, clock), "none")

NextProjects ==
    \/ AnyCreateProject
    \/ DeleteProject
    \/ AnySubmitTask
    \/ GetTask
    \/ CancelTask

SpecProjects == Init /\ [][NextProjects]_vars

\* C13: deleting an existing project removes it and clears project_id on each
\* task that pointed at it, every other field of those tasks and every other
\* task staying as they were and no task being removed; deleting an unknown
\* project id fails with ProjectNotFound and changes nothing.
C13_DeleteProjectClearsReference ==
    [][ \A p \in ProjectIds :
          (last'.op = "delete_project" /\ last'.id = p) =>
              IF p \in DOMAIN projects
              THEN /\ last'.result = "Ok"
                   /\ projects' = Remove(projects, p)
                   /\ p \notin DOMAIN db_projects'
                   /\ DOMAIN tasks' = DOMAIN tasks
                   /\ \A t \in DOMAIN tasks :
                         IF tasks[t].project_id = Some(p)
                         THEN tasks'[t] = [tasks[t] EXCEPT !.project_id = None]
                         ELSE tasks'[t] = tasks[t]
              ELSE /\ last'.result = "ProjectNotFound"
                   /\ UNCHANGED <<tasks, projects, workflows, db_tasks, db_projects, db_workflows>>
      ]_vars

\* A project has been deleted: its cancelled task is kept without a project
\* while the task of the other project still points at it.
C13_Witness ==
    /\ last.op = "delete_project" /\ last.result = "Ok"
    /\ \E t, u \in DOMAIN tasks :
          /\ tasks[t].project_id = None
          /\ tasks[t].status = "Cancelled"
          /\ tasks[u].project_id # None
          /\ tasks[u].project_id[1] \in DOMAIN projects

(***************************************************************************)
(* SpecUpsert: upsert by name.  Tasks are created by submission or by      *)
(* upsert, moved along their phases and their workflow ladder, and         *)
(* upserted again under either of two names with a new command,            *)
(* description and priority and any project id, existing or not.           *)
(***************************************************************************)
UpsertNames == { "a", "b" }

UpsertAny ==
    \E existing \in {None} \cup { Some(i) : i \in DOMAIN tasks }, id \in FreshTaskIds \cup {0},
       name \in UpsertNames, p \in ProjectIds :
        /\ existing = None => id # 0
        /\ upsert_task(existing, id, name, "c2", "d2", p, "High", "none")

\* The phase and the workflow of the first task are moved before a second
\* task exists.
AdvanceFirstTaskPhase == Cardinality(DOMAIN tasks) = 1 /\ AdvanceTaskPhase

AdvanceFirstWorkflow == Cardinality(DOMAIN tasks) = 1 /\ AdvanceDevelopmentWorkflow

NextUpsert ==
    \/ CreateProject
    \/ SubmitTask
    \/ UpsertAny
    \/ AdvanceFirstTaskPhase
    \/ AdvanceFirstWorkflow

SpecUpsert == Init /\ [][NextUpsert]_vars

\* C14: an upsert under a name some task already has leaves that task with its
\* id, current_phase, phase history and workflow, gives it the new command,
\* description, priority and project_id, and leaves the number of tasks and
\* every other task as they were; an upsert under a name no task has, when it
\* is accepted, creates exactly one task, in Planning with its workflow
\* NotStarted, and when it is rejected creates none.
C14_UpsertUpdatesOrCreates ==
    [][ \A existing \in {None} \cup { Some(i) : i \in TaskIds }, new_id \in TaskIds,
           name \in UpsertNames, p \in ProjectIds :
          upsert_task(existing, new_id, name, "c2", "d2", p, "High", "none") =>
              IF \E i \in DOMAIN tasks : tasks[i].name = name
              THEN /\ existing # None
                   /\ LET i == existing[1] IN
                      /\ DOMAIN tasks' = DOMAIN tasks
                      /\ \A j \in DOMAIN tasks \ {i} : tasks'[j] = tasks[j]
                      /\ tasks'[i].id = i /\ tasks'[i].name = name
                      /\ tasks'[i].current_phase = tasks[i].current_phase
                      /\ tasks'[i].phases = tasks[i].phases
                      /\ tasks'[i].development_workflow = tasks[i].development_workflow
                      /\ tasks'[i].command = "c2"
                      /\ tasks'[i].description = "d2"
                      /\ tasks'[i].priority = "High"
                      /\ tasks'[i].project_id = Some(p)
              ELSE IF last'.result = "Ok"
                   THEN /\ new_id \notin DOMAIN tasks
                        /\ DOMAIN tasks' = DOMAIN tasks \cup {new_id}
                        /\ \A j \in DOMAIN tasks : tasks'[j] = tasks[j]
                        /\ tasks'[new_id].name = name
                        /\ tasks'[new_id].current_phase = "Planning"
                        /\ tasks'[new_id].development_workflow # None
                        /\ tasks'[new_id].development_workflow[1].workflow_status = "NotStarted"
                   ELSE tasks' = tasks ]_vars

\* A task that has left Planning and whose workflow has started has been
\* upserted: it is where it was, with the new command, beside a second task.
C14_Witness ==
    /\ last.op = "upsert_task" /\ last.result = "Ok"
    /\ \E i \in DOMAIN tasks :
          /\ last.id = i
          /\ tasks[i].command = "c2"
          /\ tasks[i].current_phase = "TestCreation"
          /\ Len(tasks[i].phases) = 2
          /\ tasks[i].development_workflow[1].workflow_status = "Planning"
    /\ Cardinality(DOMAIN tasks) = 2

\* C15: a task accepted by submit is kept with the id, name, command,
\* description, project_id and priority of the request, and a get of a kept
\* task returns those six fields as they are kept, with a status equal to the
\* effective status of the kept task; for the get that directly follows the
\* accepted submit that status is Planning.
C15_SubmitGetRoundTrip ==
    [][ /\ \A id \in TaskIds, name \in SubmitNames, command \in SubmitCommands,
              project_id \in SubmitProjectIds, priority \in SubmitPriorities :
             ( /\ last'.op = "submit_task" /\ last'.id = id /\ last'.result = "Ok"
               /\ submit_task(to_task(id, name, command, "d", project_id, priority,
                                      default_ai_reviews_required, clock), "none") ) =>
                 /\ id \in DOMAIN tasks'
                 /\ tasks'[id].id = id
                 /\ tasks'[id].name = name
                 /\ tasks'[id].command = command
                 /\ tasks'[id].description = "d"
                 /\ tasks'[id].project_id = project_id
                 /\ tasks'[id].priority = priority
        /\ \A id \in DOMAIN tasks :
             (last'.op = "get_task" /\ last'.id = id /\ get_task(id)) =>
                 /\ last'.result.id = id
                 /\ last'.result.name = tasks[id].name
                 /\ last'.result.command = tasks[id].command
                 /\ last'.result.description = tasks[id].description
                 /\ last'.result.project_id = tasks[id].project_id
                 /\ last'.result.priority = tasks[id].priority
                 /\ last'.result.status = get_effective_task_status(tasks[id])
                 /\ (last.op = "submit_task" /\ last.result = "Ok" /\ last.id = id)
                        => last'.result.status = "Planning" ]_vars

\* A High priority task sent to the second project has been read back, beside
\* an earlier task that was cancelled.
C15_Witness ==
    /\ last.op = "get_task"
    /\ last.id \in DOMAIN tasks
    /\ last.result.id = last.id
    /\ last.result.priority = "High"
    /\ last.result.project_id = Some(2)
    /\ last.result.status = "Planning"
    /\ \E j \in DOMAIN tasks \ {last.id} : tasks[j].status = "Cancelled"

\* C16: a submit whose name is empty, whose command is empty, whose project_id
\* is absent or whose project_id names no existing project is rejected with
\* InvalidTaskDefinition, and a rejected submit leaves the task map and the
\* stored tasks as they were.
C16_InvalidSubmitRejected ==
    [][ \A id \in TaskIds, name \in SubmitNames, command \in SubmitCommands,
           project_id \in SubmitProjectIds, priority \in SubmitPriorities :
          ( /\ last'.op = "submit_task" /\ last'.id = id
            /\ submit_task(to_task(id, name, command, "d", project_id, priority,
                                   default_ai_reviews_required, clock), "none") ) =>
              /\ ( \/ name = ""
                   \/ command = ""
                   \/ project_id = None
                   \/ (project_id # None /\ project_id[1] \notin DOMAIN projects) )
                     => last'.result = "InvalidTaskDefinition"
              /\ last'.result # "Ok" => (tasks' = tasks /\ db_tasks' = db_tasks) ]_vars

\* A submit has been rejected while a project and a task exist: its id is in
\* neither the task map nor the store.
C16_Witness ==
    /\ last.op = "submit_task"
    /\ last.result = "InvalidTaskDefinition"
    /\ projects # EmptyMap
    /\ tasks # EmptyMap
    /\ last.id \notin DOMAIN tasks
    /\ last.id \notin DOMAIN db_tasks

(***************************************************************************)
(* SpecRace: submit_task against delete_project.  Calls of submit_task run *)
(* as their three steps (validate, insert, store) and delete_project runs  *)
(* between any two of them: it holds the projects write lock and then the  *)
(* tasks write lock, neither of which a submit_task holds between its      *)
(* steps.                                                                  *)
(***************************************************************************)
RaceSubmitValidate ==
    \E c \in Calls, p \in ProjectIds,
       id \in Least(TaskIds \ (DOMAIN tasks \cup DOMAIN db_tasks \cup InFlightIds)) :
        submit_task_validate(c, to_task(id, "a", "c1", "d", Some(p), "Normal",
                                        default_ai_reviews_required, clock))

NextRace ==
    \/ AnyCreateProject
    \/ DeleteProject
    \/ RaceSubmitValidate
    \/ ConcSubmitInsert
    \/ ConcSubmitStore

SpecRace == Init /\ [][NextRace]_vars

\* C17: however submit_task and delete_project interleave, no task whose
\* submit has returned (with success: a rejected submit keeps no task) carries
\* in the task map a project_id that names a project which does not exist: the
\* project was there when the task was inserted and is still, or the deletion
\* has cleared the task's project_id.
C17_NoTaskOfMissingProject ==
    \A id \in DOMAIN tasks \ InFlightIds :
        \/ tasks[id].project_id = None
        \/ tasks[id].project_id[1] \in DOMAIN projects

(***************************************************************************)
(* SpecCoverage: the set_test_coverage tool.  The coverage argument is any *)
(* JSON number (as_f64), kept here in ten-thousandths: 0.0 and 1.0, a      *)
(* value between them, and the values just below 0.0 and just above 1.0.   *)
(***************************************************************************)
CoverageUnit == 10000

CoverageArguments == { -100, 0, 5000, CoverageUnit, CoverageUnit + 100 }

SetAnyTestCoverage ==
    \E id \in TaskIds, coverage \in CoverageArguments : set_test_coverage(id, coverage, "none")

NextCoverage ==
    \/ CreateProject
    \/ SubmitTask
    \/ SetAnyTestCoverage
    \/ AdvanceDevelopmentWorkflow
    \/ CancelTask

SpecCoverage == Init /\ [][NextCoverage]_vars

\* C18: set_test_coverage on a task with f in [0,1], the two ends included,
\* succeeds and records f as the workflow's test coverage; with f outside [0,1]
\* it fails with ValidationError and leaves the recorded coverage as it was.
C18_CoverageRangeChecked ==
    [][ \A id \in DOMAIN tasks, f \in CoverageArguments :
          set_test_coverage(id, f, "none") =>
              IF 0 <= f /\ f <= CoverageUnit
              THEN /\ last'.result = "Ok"
                   /\ tasks'[id].development_workflow[1].test_coverage_percentage = Some(f)
              ELSE /\ last'.result = "ValidationError"
                   /\ tasks'[id].development_workflow[1].test_coverage_percentage =
                          tasks[id].development_workflow[1].test_coverage_percentage ]_vars

(***************************************************************************)
(* SpecAdvance: advance_development_workflow over every workflow status.   *)
(* Two tasks are loaded, each with its own workflow in any status (or with *)
(* none); their workflows are advanced and the tasks read.                 *)
(***************************************************************************)
InitAdvance ==
    \E wf1, wf2 \in {None} \cup { Some(ws) : ws \in DevelopmentWorkflowStatus } :
        /\ tasks = Put(Put(EmptyMap, 1, StoredTask(1, "Planning", "Planning", wf1)),
                       2, StoredTask(2, "Planning", "Planning", wf2))
        /\ db_tasks = tasks
        /\ projects = OneProject
        /\ db_projects = projects
        /\ workflows = EmptyMap
        /\ db_workflows = EmptyMap
        /\ clock = 0
        /\ faulted = FALSE
        /\ procs = NoProcs
        /\ Throttler_new
        /\ Cache_new
        /\ last = NoCall

NextAdvance ==
    \/ AdvanceDevelopmentWorkflow
    \/ GetTask

SpecAdvance == InitAdvance /\ [][NextAdvance]_vars

\* The ladder of the development workflow, in order.
WorkflowLadder ==
    << "NotStarted", "Planning", "InImplementation", "TestCreation", "Testing",
       "AIReview", "Completed" >>

\* The place of a status on the ladder, 0 for a status that is not on it.
LadderPosition(ws) ==
    IF \E k \in 1..Len(WorkflowLadder) : WorkflowLadder[k] = ws
    THEN CHOOSE k \in 1..Len(WorkflowLadder) : WorkflowLadder[k] = ws
    ELSE 0

\* C19: a successful advance_development_workflow on a task whose workflow is
\* on the ladder below Completed moves workflow_status to the next place of
\* the ladder, one place up and never down, so that six calls take NotStarted
\* to Completed; on a Completed or a Failed workflow it leaves the status as
\* it is.  The call returns the new status and no other task is touched.
C19_AdvanceOneStep ==
    [][ \A id \in DOMAIN tasks :
          ( /\ tasks[id].development_workflow # None
            /\ advance_development_workflow(id, "none") ) =>
              LET old == tasks[id].development_workflow[1].workflow_status
                  new == tasks'[id].development_workflow[1].workflow_status
              IN /\ last'.result = new
                 /\ IF old \in {"Completed", "Failed"}
                    THEN new = old
                    ELSE /\ LadderPosition(old) \in 1..(Len(WorkflowLadder) - 1)
                         /\ LadderPosition(new) = LadderPosition(old) + 1
                 /\ \A j \in DOMAIN tasks \ {id} : tasks'[j] = tasks[j] ]_vars

\* One task has been advanced into Completed beside a task whose workflow is
\* Failed, as it was loaded.
C19_Witness ==
    /\ last.op = "advance_development_workflow"
    /\ last.result = "Completed"
    /\ tasks[last.id].development_workflow[1].workflow_status = "Completed"
    /\ \E j \in DOMAIN tasks \ {last.id} :
          /\ tasks[j].development_workflow # None
          /\ tasks[j].development_workflow[1].workflow_status = "Failed"
          /\ db_tasks[j] = tasks[j]

\* C20: a task whose workflow_status is Completed holds at least
\* ai_reviews_required AI review reports in its workflow, the advance from
\* AIReview being refused while it holds fewer.
C20_CompletedNeedsReports ==
    \A id \in DOMAIN tasks :
        ( /\ tasks[id].development_workflow # None
          /\ tasks[id].development_workflow[1].workflow_status = "Completed" ) =>
            Len(tasks[id].development_workflow[1].ai_review_reports) >= tasks[id].ai_reviews_required

\* C21: a task's workflow_status goes from Planning to InImplementation only
\* when a technical_documentation_path is recorded for the task, and from
\* Testing to AIReview only when a test coverage value is recorded.
C21_AdvanceNeedsPrerequisites ==
    [][ \A id \in DOMAIN tasks \cap DOMAIN tasks' :
          ( /\ tasks[id].development_workflow # None
            /\ tasks'[id].development_workflow # None ) =>
              LET old == tasks[id].development_workflow[1]
                  new == tasks'[id].development_workflow[1]
              IN /\ ( old.workflow_status = "Planning"
                      /\ new.workflow_status = "InImplementation" )
                        => old.technical_documentation_path # None
                 /\ ( old.workflow_status = "Testing"
                      /\ new.workflow_status = "AIReview" )
                        => old.test_coverage_percentage # None ]_vars

(***************************************************************************)
(* SpecScenario: the development workflow driven from the tools alone.  A  *)
(* task is submitted; its documentation path and its test coverage are     *)
(* set, its workflow is advanced, review reports are added, and the task   *)
(* is read.  Nothing here calls set_task_status or advance_task_phase.     *)
(***************************************************************************)
NextScenario ==
    \/ CreateProject
    \/ SubmitTask
    \/ SetTechnicalDocumentation
    \/ SetTestCoverage
    \/ AdvanceDevelopmentWorkflow
    \/ AddAIReviewReport
    \/ GetTask

SpecScenario == Init /\ [][NextScenario]_vars

\* C22: a task read after its documentation path was set, its workflow was
\* advanced six times from NotStarted, its test coverage was set and three
\* approved review reports were added is reported with status Completed and
\* with six entries in phases, each but the last with completed_at set.
C22_ScenarioEndsWithSixPhases ==
    ( /\ last.op = "get_task"
      /\ last.id \in DOMAIN tasks
      /\ tasks[last.id].development_workflow # None
      /\ LET wf == tasks[last.id].development_workflow[1]
         IN /\ wf.workflow_status = "Completed"
            /\ wf.technical_documentation_path # None
            /\ wf.test_coverage_percentage # None
            /\ Len(wf.ai_review_reports) = default_ai_reviews_required
            /\ \A k \in 1..Len(wf.ai_review_reports) : wf.ai_review_reports[k].approved ) =>
        /\ last.result.status = "Completed"
        /\ Len(last.result.phases) = 6
        /\ \A k \in 1..(Len(last.result.phases) - 1) : last.result.phases[k].completed_at # None

(***************************************************************************)
(* The read paths.                                                         *)
(***************************************************************************)
\* The task as list_tasks and the GET /tasks/{id} handler send it: a clone
\* whose status is the effective status.
display_task(task) == [task EXCEPT !.status = get_effective_task_status(task)]

\* server.rs: the match on status.as_str() inside TaskQueueServer::list_tasks.
matches_status_filter(status, effective_status) ==
    CASE status = "planning" -> effective_status = "Planning"
      [] status = "pending" -> effective_status = "Pending"
      [] status = "running" -> effective_status = "Running"
      [] status = "completed" -> effective_status = "Completed"
      [] status = "failed" -> effective_status = "Failed"
      [] status = "cancelled" -> effective_status = "Cancelled"
      [] status = "implementation" -> effective_status = "InImplementation"
      [] status = "testcreation" -> effective_status = "TestCreation"
      [] status = "testing" -> effective_status = "Testing"
      [] status = "aireview" -> effective_status = "AIReview"
      [] OTHER -> FALSE

(***************************************************************************)
(* server.rs: TaskQueueServer::list_tasks.  project and status are the     *)
(* optional query parameters; the answer maps the id of each task kept by  *)
(* both filters to its display clone (the Vec is in HashMap order).        *)
(***************************************************************************)
list_tasks(project, status) ==
    LET by_project == { id \in DOMAIN tasks :
                          project # None => tasks[id].project = Some(project[1]) }
        filtered == { id \in by_project :
                        status # None =>
                            matches_status_filter(status[1], get_effective_task_status(tasks[id])) }
    IN Answer("list_tasks", 0, <<project, status>>,
              [ id \in filtered |-> display_task(tasks[id]) ])

(***************************************************************************)
(* server.rs: TaskQueueServer::get_task_status behind GET                  *)
(* /tasks/{id}/status: the status field of the task as it is kept.         *)
(***************************************************************************)
get_task_status(id) ==
    Answer("get_task_status", id, "",
           IF id \in DOMAIN tasks THEN tasks[id].status ELSE "NOT_FOUND")

(***************************************************************************)
(* server.rs: TaskQueueServer::get_tasks_by_project, which the             *)
(* GET /projects/{id}/tasks handler and the get_project_tasks tool both    *)
(* send on with the tasks' status fields as kept.                          *)
(***************************************************************************)
get_tasks_by_project(project_id) ==
    Answer("get_tasks_by_project", project_id, "",
           [ id \in { i \in DOMAIN tasks : tasks[i].project_id = Some(project_id) } |-> tasks[id] ])

(***************************************************************************)
(* SpecRead: reading.  Two tasks of project 1 are held.  The first is in   *)
(* any phase with no workflow or one not started, or in Planning with a    *)
(* workflow in any later status, and may carry the project's name in its   *)
(* project field; the second is in Implementation, its workflow in         *)
(* InImplementation, or in the legacy InImplementation phase with no       *)
(* workflow.  They are cancelled and read through every read path, the     *)
(* list with one filter at a time.                                         *)
(***************************************************************************)
\* Uuid as Display writes it, the form a ?project= parameter would carry.
uuid_to_string(id) == ToString(id)

ProjectFilters == { "alpha", uuid_to_string(1) }

AcceptedStatusFilters ==
    { "planning", "pending", "running", "completed", "failed", "cancelled",
      "implementation", "testcreation", "testing", "aireview" }

StatusFilters == AcceptedStatusFilters \cup { "Planning", "IMPLEMENTATION" }

SecondTasks ==
    { StoredTask(2, "Implementation", "Implementation", Some("InImplementation")),
      StoredTask(2, "InImplementation", "InImplementation", None) }

\* The first task: any phase under no workflow or a workflow not started; the
\* Planning phase it was submitted in under a workflow that was advanced.
FirstTasks ==
    { StoredTask(1, phase, phase, wf) :
        phase \in TaskStatus, wf \in { None, Some("NotStarted") } }
    \cup
    { StoredTask(1, "Planning", "Planning", Some(ws)) :
        ws \in DevelopmentWorkflowStatus \ {"NotStarted"} }

InitRead ==
    \E first \in FirstTasks, project \in {None, Some("alpha")}, second \in SecondTasks :
        /\ tasks = Put(Put(EmptyMap, 1, [first EXCEPT !.project = project]), 2, second)
        /\ db_tasks = tasks
        /\ projects = OneProject
        /\ db_projects = projects
        /\ workflows = EmptyMap
        /\ db_workflows = EmptyMap
        /\ clock = 0
        /\ faulted = FALSE
        /\ procs = NoProcs
        /\ Throttler_new
        /\ Cache_new
        /\ last = NoCall

ListTasks ==
    \E project \in {None} \cup { Some(p) : p \in ProjectFilters },
       status \in {None} \cup { Some(v) : v \in StatusFilters } :
        /\ project = None \/ status = None
        /\ list_tasks(project, status)

GetTaskStatus ==
    \E id \in TaskIds : get_task_status(id)

GetProjectTasks ==
    \E p \in ProjectIds : get_tasks_by_project(p)

NextRead ==
    \/ CancelTask
    \/ GetTask
    \/ GetTaskStatus
    \/ ListTasks
    \/ GetProjectTasks

SpecRead == InitRead /\ [][NextRead]_vars

\* C23: once cancel_task has succeeded on a task, whatever its phase and its
\* workflow status, the task's result is Cancelled with the reason given, a
\* get of the task reports status Cancelled and the list filtered by status
\* cancelled contains it.
C23_CancelledIsReportedCancelled ==
    [][ (last.op = "cancel_task" /\ last.result = "Ok") =>
          /\ tasks[last.id].result = Some([kind |-> "Cancelled", reason |-> last.arg])
          /\ get_task(last.id) => last'.result.status = "Cancelled"
          /\ list_tasks(None, Some("cancelled")) => last.id \in DOMAIN last'.result ]_vars

\* The phase a status filter value names, in whatever letter case it is written.
FilterPhase(v) ==
    CASE v \in { "planning", "Planning" } -> "Planning"
      [] v = "pending" -> "Pending"
      [] v = "running" -> "Running"
      [] v = "completed" -> "Completed"
      [] v = "failed" -> "Failed"
      [] v = "cancelled" -> "Cancelled"
      [] v \in { "implementation", "IMPLEMENTATION" } -> "Implementation"
      [] v = "testcreation" -> "TestCreation"
      [] v = "testing" -> "Testing"
      [] v = "aireview" -> "AIReview"

\* C24: the list filtered by an accepted status value, in any letter case,
\* holds exactly the tasks whose effective status is the phase the value
\* names; the list filtered by implementation holds every task whose
\* effective status is Implementation.
C24_StatusFilterSelectsEffectiveStatus ==
    (last.op = "list_tasks" /\ last.arg[1] = None /\ last.arg[2] # None) =>
        DOMAIN last.result =
            { id \in DOMAIN tasks :
                get_effective_task_status(tasks[id]) = FilterPhase(last.arg[2][1]) }

\* C25: the list filtered by project P holds exactly the tasks whose
\* project_id is P.
C25_ProjectFilterSelectsProjectId ==
    \A p \in ProjectIds :
        ( /\ last.op = "list_tasks"
          /\ last.arg[1] = Some(uuid_to_string(p))
          /\ last.arg[2] = None ) =>
            DOMAIN last.result = { id \in DOMAIN tasks : tasks[id].project_id = Some(p) }

\* C26: every read path reports, for the same task, the same status, its
\* effective status: the get of the task, the unfiltered list, the status
\* route and the tasks of its project.
C26_ReadPathsAgreeOnStatus ==
    [][ \A id \in DOMAIN tasks :
          LET effective == get_effective_task_status(tasks[id]) IN
          /\ (last'.id = id /\ get_task(id)) => last'.result.status = effective
          /\ list_tasks(None, None) => last'.result[id].status = effective
          /\ (last'.id = id /\ get_task_status(id)) => last'.result = effective
          /\ \A p \in ProjectIds :
                (last'.id = p /\ get_tasks_by_project(p) /\ id \in DOMAIN last'.result) =>
                    last'.result[id].status = effective ]_vars

(***************************************************************************)
(* The HTTP handlers.  Each handler turns Ok into 200 and every Err of the *)
(* server method it calls into one status code of its own, whatever the    *)
(* error is.                                                               *)
(***************************************************************************)
\* error.rs: the variants of TaskQueueError the server methods return.
TaskQueueError ==
    { "TaskNotFound", "WorkflowNotFound", "ProjectNotFound", "InvalidTaskDefinition",
      "InvalidStatusTransition", "ValidationError", "StorageError" }

\* The server methods behind a route of TaskQueueServer::start.
HttpRoutes ==
    { "submit_task", "cancel_task", "retry_task", "delete_task", "update_task",
      "upsert_task", "advance_task_phase", "set_task_status", "create_project",
      "delete_project" }

\* The status code of the handler of route op for the result of its call.
http_status(op, result) ==
    IF result \notin TaskQueueError THEN 200
    ELSE CASE op = "submit_task" -> 400
           [] op = "cancel_task" -> 404
           [] op = "retry_task" -> 404
           [] op = "delete_task" -> 404
           [] op = "update_task" -> 404
           [] op = "upsert_task" -> 500
           [] op = "advance_task_phase" -> 404
           [] op = "set_task_status" -> 400
           [] op = "create_project" -> 500
           [] op = "delete_project" -> 500

\* The status code the error table gives each error.
ErrorTableStatus(error) ==
    CASE error \in { "TaskNotFound", "WorkflowNotFound", "ProjectNotFound" } -> 404
      [] error \in { "InvalidTaskDefinition", "InvalidStatusTransition", "ValidationError" } -> 400
      [] error = "StorageError" -> 500

\* C27: on every route, a call that fails is answered with the status code the
\* error table gives its error: 404 for a lookup miss, 400 for an invalid
\* definition, an invalid transition or a validation error, 500 for a storage
\* error.
C27_StatusCodeFollowsErrorTable ==
    (last.op \in HttpRoutes /\ last.result \in TaskQueueError) =>
        http_status(last.op, last.result) = ErrorTableStatus(last.result)

\* C28: approve_workflow moves a Pending workflow to Running, leaves a
\* workflow that is Completed, Failed or Cancelled out of Running, and fails
\* with WorkflowNotFound for an id no workflow has.
C28_ApproveOnlyFromPending ==
    [][ \A id \in WorkflowIds :
          (last'.op = "approve_workflow" /\ last'.id = id /\ approve_workflow(id, "none")) =>
              IF id \notin DOMAIN workflows
              THEN last'.result = "WorkflowNotFound" /\ workflows' = workflows
              ELSE /\ workflows[id].status = "Pending" =>
                        (last'.result = "Ok" /\ workflows'[id].status = "Running")
                   /\ workflows[id].status \in { "Completed", "Failed", "Cancelled" } =>
                        workflows'[id].status # "Running" ]_vars

(***************************************************************************)
(* create_project and submit_task with their best-effort steps.  After the *)
(* store has succeeded, create_project creates and writes the .tasks file, *)
(* and submit_task reads and rewrites it and then hands the task's context *)
(* to the vectorizer.  How each of these steps ended is an input; what was *)
(* attempted and how it ended is kept in the io field of `last` (the       *)
(* warn!/info! line the step leaves), "not_reached" when the method        *)
(* returned before it.                                                     *)
(***************************************************************************)
WithIo(ret, io) ==
    [ n |-> ret.n, op |-> ret.op, id |-> ret.id, arg |-> ret.arg, result |-> ret.result,
      io |-> io ]

\* File::create(".tasks") fails, or it succeeds and fs::write fails or succeeds.
CreateFileOutcomes == { "create_failed", "write_failed", "written" }

\* read_to_string(".tasks") fails, or it succeeds and fs::write fails or succeeds.
UpdateFileOutcomes == { "read_failed", "write_failed", "written" }

\* vectorizer.store_task_context returns Err or Ok.
VectorizerOutcomes == { "failed", "stored" }

create_project_with_file(id, name, fault, file) ==
    LET project == [ id |-> id, name |-> name, status |-> "Planning" ] IN
    /\ projects' = Put(projects, id, project)
    /\ db_projects' = store(db_projects, id, project, fault)
    /\ faulted' = (faulted \/ fault # "none")
    /\ last' = WithIo(Ret("create_project", id, name, StoreResult(fault)),
                      IF fault # "none" THEN "not_reached" ELSE file)
    /\ UNCHANGED <<tasks, workflows, db_tasks, db_workflows, clock, procs, throttler, cache>>

\* A faulty variant of submit_task that returns the vectorizer's error to the
\* caller.
submit_task_vectorizer_required(task, fault, file, vectorizer) ==
    LET v == validate_task(task, projects) IN
    /\ IF v # "Ok"
       THEN /\ UNCHANGED <<tasks, db_tasks, faulted>>
            /\ last' = WithIo(Ret("submit_task", task.id, "", v), "not_reached")
       ELSE /\ tasks' = Put(tasks, task.id, task)
            /\ db_tasks' = store(db_tasks, task.id, task, fault)
            /\ faulted' = (faulted \/ fault # "none")
            /\ last' = WithIo(Ret("submit_task", task.id, "",
                                  IF fault # "none" THEN "StorageError"
                                  ELSE IF vectorizer = "failed" THEN "VectorizerError"
                                  ELSE "Ok"),
                              IF fault # "none" THEN "not_reached" ELSE <<file, vectorizer>>)
    /\ UNCHANGED <<projects, workflows, db_projects, db_workflows, clock, procs, throttler, cache>>

submit_task_with_io(task, fault, file, vectorizer) ==
    LET v == validate_task(task, projects) IN
    /\ IF v # "Ok"
       THEN /\ UNCHANGED <<tasks, db_tasks, faulted>>
            /\ last' = WithIo(Ret("submit_task", task.id, "", v), "not_reached")
       ELSE /\ tasks' = Put(tasks, task.id, task)
            /\ db_tasks' = store(db_tasks, task.id, task, fault)
            /\ faulted' = (faulted \/ fault # "none")
            /\ last' = WithIo(Ret("submit_task", task.id, "", StoreResult(fault)),
                              IF fault # "none" THEN "not_reached" ELSE <<file, vectorizer>>)
    /\ UNCHANGED <<projects, workflows, db_projects, db_workflows, clock, procs, throttler, cache>>

(***************************************************************************)
(* SpecIo: projects are created and tasks submitted (to an existing or an  *)
(* unknown project) while the .tasks file and the vectorizer fail or work, *)
(* and the storage engine fails at most once.                              *)
(***************************************************************************)
CreateProjectWithFile ==
    \E id \in FreshProjectIds, fault \in StorageFaults, file \in CreateFileOutcomes :
        /\ MayFail(fault)
        /\ create_project_with_file(id, "alpha", fault, file)

SubmitTaskWithIo ==
    \E id \in FreshTaskIds, p \in ProjectIds, fault \in StorageFaults,
       file \in UpdateFileOutcomes, vectorizer \in VectorizerOutcomes :
        /\ MayFail(fault)
        /\ submit_task_with_io(to_task(id, "a", "c1", "d", Some(p), "Normal",
                                       default_ai_reviews_required, clock),
                               fault, file, vectorizer)

NextIo ==
    \/ CreateProjectWithFile
    \/ SubmitTaskWithIo

SpecIo == Init /\ [][NextIo]_vars

\* C29: whatever happens to the .tasks file and to the vectorizer call,
\* create_project and submit_task return, keep and store what they return,
\* keep and store when those steps are left out: the id and Ok (or the
\* validation or storage error), the project or task in the map, and in the
\* store unless the store itself failed.
C29_BestEffortStepsChangeNothing ==
    [][ /\ \A id \in ProjectIds, fault \in StorageFaults, file \in CreateFileOutcomes :
             create_project_with_file(id, "alpha", fault, file) =>
                 LET project == [ id |-> id, name |-> "alpha", status |-> "Planning" ] IN
                 /\ last'.id = id
                 /\ last'.result = StoreResult(fault)
                 /\ projects' = Put(projects, id, project)
                 /\ db_projects' = store(db_projects, id, project, fault)
        /\ \A id \in TaskIds, p \in ProjectIds, fault \in StorageFaults,
              file \in UpdateFileOutcomes, vectorizer \in VectorizerOutcomes :
             LET task == to_task(id, "a", "c1", "d", Some(p), "Normal",
                                 default_ai_reviews_required, clock) IN
             (last'.id = id /\ submit_task_with_io(task, fault, file, vectorizer)) =>
                 /\ last'.result = IF validate_task(task, projects) # "Ok"
                                   THEN validate_task(task, projects)
                                   ELSE StoreResult(fault)
                 /\ tasks' = IF validate_task(task, projects) # "Ok" THEN tasks
                             ELSE Put(tasks, id, task)
                 /\ db_tasks' = IF validate_task(task, projects) # "Ok" THEN db_tasks
                                ELSE store(db_tasks, id, task, fault) ]_vars

\* A task has been submitted and is kept and stored, the call having returned
\* Ok, although the .tasks file could not be read and the vectorizer failed.
C29_Witness ==
    /\ last.op = "submit_task"
    /\ last.result = "Ok"
    /\ last.io = << "read_failed", "failed" >>
    /\ last.id \in DOMAIN tasks
    /\ last.id \in DOMAIN db_tasks
    /\ db_tasks[last.id] = tasks[last.id]

(***************************************************************************)
(* rate_limiting.rs: Throttler.  Its two maps sit behind tokio RwLocks;    *)
(* every await of write() is a step of its own, and the code between two   *)
(* awaits is one step.  A write guard lives until the end of the function  *)
(* that took it.                                                           *)
(***************************************************************************)
MaxRequests == 3

RequestIds == 1..MaxRequests

\* ThrottleConfig: the configuration the throttler was built with.
max_concurrent_requests == 1
queue_size == 1

ClientIds == { "client1", "client2" }

RequestPriority == { "Normal", "High" }

\* format!("{}-{}", client_id, millis): an id no request in the throttler has.
FreshRequestIds ==
    Least(RequestIds \ (DOMAIN active_requests
                          \cup { request_queue[i].id : i \in 1..Len(request_queue) }
                          \cup { procs[c].request.id :
                                   c \in { d \in DOMAIN procs : procs[d].op = "submit_request" } }))

ThrottledRequest(id, client_id, priority) ==
    [ id |-> id, client_id |-> client_id, priority |-> priority ]

\* The lock whose write() the call is awaiting at this step, if any.
Awaited(pc) ==
    CASE pc = "submit_request: active_requests.write" -> Some("active_requests")
      [] pc = "submit_request: request_queue.write" -> Some("request_queue")
      [] pc = "complete_request: active_requests.write" -> Some("active_requests")
      [] pc = "process_next_request: request_queue.write" -> Some("request_queue")
      [] pc = "process_next_request: active_requests.write" -> Some("active_requests")
      [] pc = "upsert_task: tasks.write" -> Some("tasks")
      [] pc = "delete_project: projects.write" -> Some("projects")
      [] pc = "delete_project: tasks.write" -> Some("tasks")
      [] OTHER -> None

\* The step a call is at once the write guard it awaited is its own.
AfterWrite(pc) ==
    CASE pc = "submit_request: active_requests.write" -> "submit_request: request_queue.write"
      [] pc = "submit_request: request_queue.write" -> "submit_request: admit"
      [] pc = "complete_request: active_requests.write" -> "complete_request: remove"
      [] pc = "process_next_request: request_queue.write" -> "process_next_request: active_requests.write"
      [] pc = "process_next_request: active_requests.write" -> "process_next_request: pop"
      [] pc = "upsert_task: tasks.write" -> "upsert_task: find"
      [] pc = "delete_project: projects.write" -> "delete_project: remove"
      [] pc = "delete_project: tasks.write" -> "delete_project: values_mut"
      [] OTHER -> pc

\* tokio::sync::RwLock::write().await: granted only while nobody holds the
\* lock, the awaiting call included.
write(c) ==
    /\ c \in DOMAIN procs
    /\ Awaited(procs[c].pc) # None
    /\ LET lock == Awaited(procs[c].pc)[1] IN
       /\ guards[lock] = None
       /\ guards' = [guards EXCEPT ![lock] = Some(c)]
    /\ procs' = [procs EXCEPT ![c].pc = AfterWrite(procs[c].pc)]
    /\ UNCHANGED <<tasks, projects, workflows, db_tasks, db_projects, db_workflows,
                   clock, faulted, last, active_requests, request_queue, cache>>

\* Dropping the guards a call holds.
Dropped(c) == [ lock \in DOMAIN guards |-> IF guards[lock] = Some(c) THEN None ELSE guards[lock] ]

\* Throttler::submit_request up to its first await.
submit_request(c, client_id, priority) ==
    /\ c \notin DOMAIN procs
    /\ FreshRequestIds # {}
    /\ \E id \in FreshRequestIds :
          procs' = Put(procs, c, [ op |-> "submit_request",
                                   pc |-> "submit_request: active_requests.write",
                                   request |-> ThrottledRequest(id, client_id, priority) ])
    /\ UNCHANGED <<tasks, projects, workflows, db_tasks, db_projects, db_workflows,
                   clock, faulted, last, throttler, cache>>

\* Throttler::complete_request up to its first await.
complete_request(c, request_id) ==
    /\ c \notin DOMAIN procs
    /\ procs' = Put(procs, c, [ op |-> "complete_request",
                                pc |-> "complete_request: active_requests.write",
                                request_id |-> request_id ])
    /\ UNCHANGED <<tasks, projects, workflows, db_tasks, db_projects, db_workflows,
                   clock, faulted, last, throttler, cache>>

\* Throttler::submit_request with both guards held: admit, queue or reject.
submit_request_admit(c) ==
    LET request == procs[c].request IN
    /\ IF Cardinality(DOMAIN active_requests) < max_concurrent_requests
       THEN /\ active_requests' = Put(active_requests, request.id, request)
            /\ UNCHANGED request_queue
            /\ last' = Ret("submit_request", request.id, "active", "Ok")
       ELSE IF Len(request_queue) < queue_size
            THEN /\ request_queue' = Append(request_queue, request)
                 /\ UNCHANGED active_requests
                 /\ last' = Ret("submit_request", request.id, "queued", "Ok")
            ELSE /\ UNCHANGED <<active_requests, request_queue>>
                 /\ last' = Ret("submit_request", request.id, "", "Request queue is full")
    /\ guards' = Dropped(c)
    /\ procs' = Remove(procs, c)

\* Throttler::complete_request with its guard held: the request is removed
\* and process_next_request is called, the guard still held; or false.
complete_request_remove(c) ==
    LET request_id == procs[c].request_id IN
    IF request_id \in DOMAIN active_requests
    THEN /\ active_requests' = Remove(active_requests, request_id)
         /\ procs' = [procs EXCEPT ![c].pc = "process_next_request: request_queue.write"]
         /\ UNCHANGED <<request_queue, guards, last>>
    ELSE /\ guards' = Dropped(c)
         /\ procs' = Remove(procs, c)
         /\ last' = Ret("complete_request", request_id, "", FALSE)
         /\ UNCHANGED <<active_requests, request_queue>>

\* Throttler::process_next_request with both guards held, and the return of
\* complete_request after it.  Vec::pop takes the last request pushed.
process_next_request(c) ==
    /\ IF /\ Cardinality(DOMAIN active_requests) < max_concurrent_requests
          /\ request_queue # << >>
       THEN LET request == request_queue[Len(request_queue)] IN
            /\ request_queue' = SubSeq(request_queue, 1, Len(request_queue) - 1)
            /\ active_requests' = Put(active_requests, request.id, request)
       ELSE UNCHANGED <<active_requests, request_queue>>
    /\ guards' = Dropped(c)
    /\ procs' = Remove(procs, c)
    /\ last' = Ret("complete_request", procs[c].request_id, "", TRUE)

\* A call runs from the guard it was given to its next await or its return.
resume(c) ==
    /\ c \in DOMAIN procs
    /\ CASE procs[c].pc = "submit_request: admit" -> submit_request_admit(c)
         [] procs[c].pc = "complete_request: remove" -> complete_request_remove(c)
         [] procs[c].pc = "process_next_request: pop" -> process_next_request(c)
         [] OTHER -> FALSE
    /\ UNCHANGED <<tasks, projects, workflows, db_tasks, db_projects, db_workflows,
                   clock, faulted, cache>>

SubmitRequest ==
    \E c \in Calls, client_id \in ClientIds, priority \in RequestPriority :
        submit_request(c, client_id, priority)

CompleteRequest ==
    \E c \in Calls, request_id \in RequestIds : complete_request(c, request_id)

Write ==
    \E c \in Calls : write(c)

Resume ==
    \E c \in Calls : resume(c)

NextThrottler ==
    \/ SubmitRequest
    \/ CompleteRequest
    \/ Write
    \/ Resume

\* The runtime polls every call that can run; the lock serves its waiters
\* in the order they came.
SpecThrottler ==
    /\ Init
    /\ [][NextThrottler]_vars
    /\ \A c \in Calls : SF_vars(write(c)) /\ WF_vars(resume(c))

\* The call c is in complete_request, holds the guard, and finds its
\* request id in the active set.
CompletingActive(c, request_id) ==
    /\ c \in DOMAIN procs
    /\ procs[c].op = "complete_request"
    /\ procs[c].pc = "complete_request: remove"
    /\ procs[c].request_id = request_id
    /\ request_id \in DOMAIN active_requests

\* The call c has returned true from complete_request(request_id).
CompletedTrue(c, request_id) ==
    /\ c \notin DOMAIN procs
    /\ last.op = "complete_request"
    /\ last.id = request_id
    /\ last.result = TRUE
    /\ request_id \notin DOMAIN active_requests

\* C30: complete_request(id) for a request id that is active terminates and
\* returns true, the request removed from the active set (and one queued
\* request promoted when capacity allows).
C30_CompleteRequestTerminates ==
    \A c \in Calls, request_id \in RequestIds :
        CompletingActive(c, request_id) ~> CompletedTrue(c, request_id)

\* The call c has removed its request and awaits, inside process_next_request,
\* the write guard of the lock it still holds itself.
AwaitsOwnGuard(c) ==
    /\ c \in DOMAIN procs
    /\ procs[c].pc = "process_next_request: active_requests.write"
    /\ guards.active_requests = Some(c)

\* complete_request never returns true: no queued request is ever promoted
\* and no call is ever past the second write() of process_next_request.
CompleteRequestNeverReturnsTrue ==
    /\ ~(last.op = "complete_request" /\ last.result = TRUE)
    /\ \A c \in DOMAIN procs : procs[c].pc # "process_next_request: pop"

\* A call that awaits its own guard awaits it for ever.
OwnGuardIsNeverDropped ==
    [][ \A c \in Calls : AwaitsOwnGuard(c) => AwaitsOwnGuard(c)' ]_vars

\* complete_request(id) for an id that is not active returns false and
\* changes neither map.
InactiveIdReturnsFalse ==
    [][ \A c \in Calls :
           ( /\ c \in DOMAIN procs
             /\ procs[c].pc = "complete_request: remove"
             /\ procs[c].request_id \notin DOMAIN active_requests
             /\ resume(c) )
           => /\ last'.result = FALSE
              /\ last'.op = "complete_request"
              /\ UNCHANGED <<active_requests, request_queue>> ]_vars

(***************************************************************************)
(* The phase history: what a change of current_phase does to phases.       *)
(***************************************************************************)
\* new is old with its last entry closed and nothing else changed.
ClosesLast(old, new) ==
    /\ Len(old) >= 1
    /\ Len(new) = Len(old)
    /\ \A i \in 1..(Len(old) - 1) : new[i] = old[i]
    /\ new[Len(old)].completed_at # None
    /\ [new[Len(old)] EXCEPT !.completed_at = None] = [old[Len(old)] EXCEPT !.completed_at = None]

\* new is old with its last entry closed and one open entry of the phase added.
ClosesLastAndAppends(old, new, phase) ==
    /\ Len(new) = Len(old) + 1
    /\ ClosesLast(old, SubSeq(new, 1, Len(old)))
    /\ new[Len(new)].phase = phase
    /\ new[Len(new)].completed_at = None

\* The step is a successful set_task_status or advance_task_phase on id.
PhaseCallSucceeded(id) ==
    /\ last'.op \in { "set_task_status", "advance_task_phase" }
    /\ last'.id = id
    /\ last'.result \in { "Ok", "Ok(true)" }
    /\ id \in DOMAIN tasks
    /\ id \in DOMAIN tasks'

\* C31: every successful SetStatus or AdvancePhase that changes current_phase
\* closes the last history entry and, unless the target is Finalized, appends
\* exactly one open entry of the target phase; a transition to Finalized only
\* closes the last entry.
C31_PhaseChangeWritesHistory ==
    [][ \A id \in TaskIds :
           ( /\ PhaseCallSucceeded(id)
             /\ tasks'[id].current_phase # tasks[id].current_phase )
           => IF tasks'[id].current_phase = "Finalized"
              THEN ClosesLast(tasks[id].phases, tasks'[id].phases)
              ELSE ClosesLastAndAppends(tasks[id].phases, tasks'[id].phases,
                                        tasks'[id].current_phase) ]_vars

\* The same, for every change of phase but the one into Implementation from
\* a phase other than AIReview, which leaves the history alone.
PhaseChangeWritesHistoryButIntoImplementation ==
    [][ \A id \in TaskIds :
           ( /\ PhaseCallSucceeded(id)
             /\ tasks'[id].current_phase # tasks[id].current_phase )
           => IF tasks'[id].current_phase = "Finalized"
              THEN ClosesLast(tasks[id].phases, tasks'[id].phases)
              ELSE IF tasks'[id].current_phase = "Implementation"
                      /\ tasks[id].current_phase # "AIReview"
                   THEN tasks'[id].phases = tasks[id].phases
                   ELSE ClosesLastAndAppends(tasks[id].phases, tasks'[id].phases,
                                             tasks'[id].current_phase) ]_vars

\* The history is well formed: started_at never decreases along the list and
\* every entry but the last is closed.
WellFormedHistory(phases) ==
    /\ \A i \in 1..(Len(phases) - 1) :
          /\ phases[i].completed_at # None
          /\ phases[i].started_at[1] <= phases[i + 1].started_at[1]
    /\ \A i \in 1..Len(phases) : phases[i].started_at # None

\* new keeps every entry of old at its place: same phase, same started_at,
\* and closed if it was closed.
KeepsEntries(old, new) ==
    /\ Len(new) >= Len(old)
    /\ \A i \in 1..Len(old) :
          /\ new[i].phase = old[i].phase
          /\ new[i].started_at = old[i].started_at
          /\ old[i].completed_at # None => new[i].completed_at # None

\* C32: a task's phases history is append-only across every sequence of
\* operations: no entry is removed or reordered, started_at values are
\* non-decreasing along the list, and every entry but the last is closed.
C32_HistoryIsAppendOnly ==
    /\ [](\A id \in DOMAIN tasks : WellFormedHistory(tasks[id].phases))
    /\ [][ \A id \in DOMAIN tasks :
              id \in DOMAIN tasks' => KeepsEntries(tasks[id].phases, tasks'[id].phases) ]_vars

\* A task whose history has grown to three entries, the first two closed.
C32_Witness ==
    \E id \in DOMAIN tasks :
        /\ Len(tasks[id].phases) >= 3
        /\ tasks[id].phases[1].completed_at # None
        /\ tasks[id].phases[2].completed_at # None
        /\ tasks[id].phases[3].phase # tasks[id].phases[1].phase

\* The step is set_task_status(id, p) with p the task's current_phase.
SetStatusToCurrentPhase(id) ==
    /\ last'.op = "set_task_status"
    /\ last'.id = id
    /\ id \in DOMAIN tasks
    /\ last'.arg = tasks[id].current_phase

\* C33: SetStatus(t, p) with p equal to t.current_phase succeeds and leaves
\* status, current_phase, result and phases (every completed_at included)
\* unchanged, for every phase and for tasks cancelled or retried before.
C33_SameStatusIsNoOp ==
    [][ \A id \in TaskIds :
           SetStatusToCurrentPhase(id)
           => /\ last'.result = "Ok"
              /\ tasks'[id].status = tasks[id].status
              /\ tasks'[id].current_phase = tasks[id].current_phase
              /\ tasks'[id].result = tasks[id].result
              /\ tasks'[id].phases = tasks[id].phases ]_vars

\* What the code does keep: the call succeeds, current_phase and result stay,
\* and phases stay unless the phase is Finalized.
SameStatusKeepsPhaseAndResult ==
    [][ \A id \in TaskIds :
           SetStatusToCurrentPhase(id)
           => /\ last'.result = "Ok"
              /\ tasks'[id].current_phase = tasks[id].current_phase
              /\ tasks'[id].result = tasks[id].result
              /\ tasks'[id].status = tasks[id].current_phase
              /\ tasks[id].current_phase # "Finalized" => tasks'[id].phases = tasks[id].phases ]_vars

\* Violated: a Finalized task set to Finalized again has the completed_at of
\* its last entry stamped anew.
FinalizedIsNotClosedAgain ==
    [][ \A id \in TaskIds :
           ( SetStatusToCurrentPhase(id) /\ tasks[id].current_phase = "Finalized" )
           => tasks'[id].phases = tasks[id].phases ]_vars

(***************************************************************************)
(* SpecIndependent: the phase machine and the development workflow of one  *)
(* stored task that needs one review, each driven by its own operations in *)
(* any order.                                                              *)
(***************************************************************************)
InitIndependent ==
    /\ tasks = Put(EmptyMap, 1, TaskInPhase(1, "Planning", 0, 1))
    /\ db_tasks = tasks
    /\ projects = OneProject
    /\ db_projects = projects
    /\ workflows = EmptyMap
    /\ db_workflows = EmptyMap
    /\ clock = 0
    /\ faulted = FALSE
    /\ procs = NoProcs
    /\ Throttler_new
    /\ Cache_new
    /\ last = NoCall

SetStatusOfTask ==
    \E id \in DOMAIN tasks, st \in SettableStatuses : set_task_status(id, st, "none")

AdvancePhaseOfTask ==
    \E id \in DOMAIN tasks : advance_task_phase(id, "none")

AdvanceWorkflowOfTask ==
    \E id \in DOMAIN tasks : advance_development_workflow(id, "none")

SetDocumentationOfTask ==
    \E id \in DOMAIN tasks, doc_path \in DocPaths : set_technical_documentation(id, doc_path, "none")

SetCoverageOfTask ==
    \E id \in DOMAIN tasks : set_test_coverage(id, 9500, "none")

AddReviewOfTask ==
    \E id \in DOMAIN tasks, review \in Reviews :
        tasks[id].ai_reviews_completed < 1 /\ add_ai_review_report(id, review, "none")

NextIndependent ==
    \/ SetStatusOfTask
    \/ AdvancePhaseOfTask
    \/ AdvanceWorkflowOfTask
    \/ SetDocumentationOfTask
    \/ SetCoverageOfTask
    \/ AddReviewOfTask

SpecIndependent == InitIndependent /\ [][NextIndependent]_vars

WorkflowOperations ==
    { "advance_development_workflow", "set_technical_documentation", "set_test_coverage",
      "add_ai_review_report" }

PhaseOperations == { "set_task_status", "advance_task_phase" }

\* C34: the two ladders are independent: the four workflow operations leave
\* the task's status, current_phase and phases unchanged, and SetStatus and
\* AdvancePhase leave the workflow's status, documentation path, coverage
\* and review list unchanged.
C34_LaddersAreIndependent ==
    [][ \A id \in DOMAIN tasks :
           id \in DOMAIN tasks'
           => /\ last'.op \in WorkflowOperations
                 => /\ tasks'[id].status = tasks[id].status
                    /\ tasks'[id].current_phase = tasks[id].current_phase
                    /\ tasks'[id].phases = tasks[id].phases
              /\ last'.op \in PhaseOperations
                 => tasks'[id].development_workflow = tasks[id].development_workflow ]_vars

\* The ladders have parted: the workflow has just been advanced to
\* InImplementation by its own operation while the task is in TestCreation.
C34_Witness ==
    \E id \in DOMAIN tasks :
        /\ last.op = "advance_development_workflow"
        /\ last.id = id
        /\ last.result = "InImplementation"
        /\ tasks[id].current_phase = "TestCreation"
        /\ tasks[id].development_workflow[1].workflow_status = "InImplementation"
        /\ Len(tasks[id].phases) >= 2

(***************************************************************************)
(* cache.rs: Cache<K, V>.  Every method takes data.write() for its whole   *)
(* body, so each call is one step.  Instant::now() is the clock.           *)
(***************************************************************************)
MaxInstant == 2
MaxAccessCount == 2

CacheKeys == { "k1", "k2", "k3" }

EvictionStrategy == { "Lru", "Lfu", "Fifo", "Ttl", "Random" }

\* The ttl arguments given to insert_with_ttl.
Ttls == { None, Some(0) }

\* CacheEntry::new.
CacheEntry(value, ttl) ==
    [ value |-> value, created_at |-> clock, last_accessed |-> clock, access_count |-> 1,
      ttl |-> ttl ]

\* CacheEntry::is_expired: created_at.elapsed() > ttl.
is_expired(entry) ==
    entry.ttl # None /\ clock - entry.created_at > entry.ttl[1]

\* CacheEntry::touch.
touch(entry) ==
    [entry EXCEPT !.last_accessed = clock, !.access_count = @ + 1]

\* Iterator::min_by_key over the entries of a HashMap: an entry of least key
\* value, whichever the iteration meets first.
MinByKey(d, keys, field) ==
    { k \in keys : \A j \in keys : d[k][field] <= d[j][field] }

\* The match of evict_entry: the keys it may come to evict.
key_to_evict(d, strategy) ==
    CASE strategy = "Lru" -> MinByKey(d, DOMAIN d, "last_accessed")
      [] strategy = "Lfu" -> MinByKey(d, DOMAIN d, "access_count")
      [] strategy = "Fifo" -> MinByKey(d, DOMAIN d, "created_at")
      [] strategy = "Ttl" ->
            MinByKey(d, { k \in DOMAIN d : is_expired(d[k]) }, "created_at")
      [] strategy = "Random" -> DOMAIN d

\* Cache::evict_entry: the maps it may leave.
evict_entry(d, strategy) ==
    IF DOMAIN d = {} \/ key_to_evict(d, strategy) = {}
    THEN { d }
    ELSE { Remove(d, k) : k \in key_to_evict(d, strategy) }

CacheCall(op, key, result) ==
    /\ last' = Ret(op, 0, key, result)
    /\ UNCHANGED <<tasks, projects, workflows, db_tasks, db_projects, db_workflows,
                   clock, faulted, procs, throttler, config>>

\* Cache::get.
get(key) ==
    /\ IF key \in DOMAIN data
       THEN IF is_expired(data[key])
            THEN /\ data' = Remove(data, key)
                 /\ CacheCall("get", key, None)
            ELSE /\ data[key].access_count < MaxAccessCount
                 /\ data' = [data EXCEPT ![key] = touch(@)]
                 /\ CacheCall("get", key, Some(data[key].value))
       ELSE /\ UNCHANGED data
            /\ CacheCall("get", key, None)

\* Cache::insert_with_ttl.
insert_with_ttl(key, value, ttl) ==
    /\ \E d \in ( IF Cardinality(DOMAIN data) >= config.max_size /\ key \notin DOMAIN data
                  THEN evict_entry(data, config.eviction_strategy)
                  ELSE { data } ) :
          data' = Put(d, key, CacheEntry(value, ttl))
    /\ CacheCall("insert", key, ttl)

\* Cache::insert.
insert(key, value) ==
    insert_with_ttl(key, value, config.default_ttl)

\* Cache::remove.
remove(key) ==
    IF key \in DOMAIN data
    THEN data' = Remove(data, key) /\ CacheCall("remove", key, Some(data[key].value))
    ELSE UNCHANGED data /\ CacheCall("remove", key, None)

\* Cache::cleanup_expired.
cleanup_expired ==
    LET kept == { k \in DOMAIN data : ~is_expired(data[k]) } IN
    /\ data' = [ k \in kept |-> data[k] ]
    /\ CacheCall("cleanup_expired", "", Cardinality(DOMAIN data) - Cardinality(kept))

\* Time passes between two calls.
Elapse ==
    /\ clock < MaxInstant
    /\ clock' = clock + 1
    /\ UNCHANGED <<tasks, projects, workflows, db_tasks, db_projects, db_workflows,
                   faulted, procs, last, throttler, cache>>

\* Cache::new(config), for each eviction strategy.
InitCache ==
    /\ tasks = EmptyMap
    /\ projects = EmptyMap
    /\ workflows = EmptyMap
    /\ db_tasks = EmptyMap
    /\ db_projects = EmptyMap
    /\ db_workflows = EmptyMap
    /\ clock = 0
    /\ faulted = FALSE
    /\ procs = NoProcs
    /\ Throttler_new
    /\ data = EmptyMap
    /\ \E strategy \in EvictionStrategy :
          config = [ max_size |-> max_size, eviction_strategy |-> strategy,
                     default_ttl |-> default_ttl ]
    /\ last = NoCall

Get ==
    \E key \in CacheKeys : get(key)

Insert ==
    \E key \in CacheKeys : insert(key, "v")

InsertWithTtl ==
    \E key \in CacheKeys, ttl \in Ttls : insert_with_ttl(key, "v", ttl)

RemoveKey ==
    \E key \in CacheKeys : remove(key)

CleanupExpired == cleanup_expired

NextCache ==
    \/ Get
    \/ Insert
    \/ InsertWithTtl
    \/ RemoveKey
    \/ CleanupExpired
    \/ Elapse

SpecCache == InitCache /\ [][NextCache]_vars

\* C35: after any sequence of insert, insert_with_ttl, get, remove and
\* cleanup_expired calls, under every eviction strategy, the cache holds at
\* most max_size entries.
C35_CacheHoldsAtMostMaxSize ==
    Cardinality(DOMAIN data) <= config.max_size

\* The bound holds under every strategy but Ttl.
CacheBoundedUnlessTtl ==
    config.eviction_strategy # "Ttl" => Cardinality(DOMAIN data) <= config.max_size

\* Under Lru, an insert of a new key into a full cache evicts an entry none
\* of the others was accessed before.
LruEvictsLeastRecentlyUsed ==
    [][ ( /\ config.eviction_strategy = "Lru"
          /\ last'.op = "insert"
          /\ Cardinality(DOMAIN data) >= config.max_size
          /\ last'.arg \notin DOMAIN data )
        => \E k \in DOMAIN data :
              /\ DOMAIN data' = (DOMAIN data \ {k}) \cup { last'.arg }
              /\ \A j \in DOMAIN data : data[k].last_accessed <= data[j].last_accessed ]_vars

(***************************************************************************)
(* server.rs: upsert_task and delete_project, await by await.  upsert_task *)
(* keeps tasks.write() from its first line to its return and, inside       *)
(* validate_task, get_project awaits projects.read(); delete_project keeps *)
(* projects.write() and, the project removed, awaits tasks.write().        *)
(***************************************************************************)
\* Uuid::new_v4(): an id no task has and no call in flight has drawn.
NewTaskIds ==
    Least(TaskIds \ (DOMAIN tasks
                       \cup { procs[d].task.id :
                                d \in { e \in DOMAIN procs :
                                          procs[e].pc = "get_project: projects.read" } }))

\* upsert_task up to its first await.
upsert_task_call(c, name, command, description, project_id, priority) ==
    /\ c \notin DOMAIN procs
    /\ procs' = Put(procs, c, [ op |-> "upsert_task", pc |-> "upsert_task: tasks.write",
                                name |-> name, command |-> command,
                                description |-> description, project_id |-> project_id,
                                priority |-> priority ])
    /\ UNCHANGED <<tasks, projects, workflows, db_tasks, db_projects, db_workflows,
                   clock, faulted, last, throttler, cache>>

\* A faulty variant of upsert_task_find that lets go of the tasks guard once
\* it has looked the name up, as submit_task does between its steps.
upsert_task_find_unlocked(c) ==
    /\ c \in DOMAIN procs
    /\ procs[c].pc = "upsert_task: find"
    /\ LET named == { id \in DOMAIN tasks : tasks[id].name = procs[c].name } IN
       IF named # {}
       THEN \E id \in named :
              /\ tasks' = [tasks EXCEPT ![id] =
                             [@ EXCEPT !.command = procs[c].command,
                                       !.description = procs[c].description,
                                       !.priority = procs[c].priority,
                                       !.project_id = Some(procs[c].project_id)]]
              /\ procs' = [procs EXCEPT ![c] =
                             [ op |-> "upsert_task", pc |-> "get_project: projects.read",
                               name |-> procs[c].name, existing_id |-> Some(id),
                               task |-> tasks'[id] ]]
       ELSE \E id \in NewTaskIds :
              /\ UNCHANGED tasks
              /\ procs' = [procs EXCEPT ![c] =
                             [ op |-> "upsert_task", pc |-> "get_project: projects.read",
                               name |-> procs[c].name, existing_id |-> None,
                               task |-> to_task(id, procs[c].name, procs[c].command,
                                                procs[c].description, Some(procs[c].project_id),
                                                procs[c].priority, default_ai_reviews_required,
                                                clock) ]]
    /\ guards' = Dropped(c)
    /\ UNCHANGED <<projects, workflows, db_tasks, db_projects, db_workflows,
                   clock, faulted, last, active_requests, request_queue, cache>>

\* upsert_task with the tasks guard: the task of that name is looked up and,
\* if there is one, written; else a new task is built (not yet inserted).
upsert_task_find(c) ==
    /\ c \in DOMAIN procs
    /\ procs[c].pc = "upsert_task: find"
    /\ LET named == { id \in DOMAIN tasks : tasks[id].name = procs[c].name } IN
       IF named # {}
       THEN \E id \in named :
              /\ tasks' = [tasks EXCEPT ![id] =
                             [@ EXCEPT !.command = procs[c].command,
                                       !.description = procs[c].description,
                                       !.priority = procs[c].priority,
                                       !.project_id = Some(procs[c].project_id)]]
              /\ procs' = [procs EXCEPT ![c] =
                             [ op |-> "upsert_task", pc |-> "get_project: projects.read",
                               name |-> procs[c].name, existing_id |-> Some(id),
                               task |-> tasks'[id] ]]
       ELSE \E id \in NewTaskIds :
              /\ UNCHANGED tasks
              /\ procs' = [procs EXCEPT ![c] =
                             [ op |-> "upsert_task", pc |-> "get_project: projects.read",
                               name |-> procs[c].name, existing_id |-> None,
                               task |-> to_task(id, procs[c].name, procs[c].command,
                                                procs[c].description, Some(procs[c].project_id),
                                                procs[c].priority, default_ai_reviews_required,
                                                clock) ]]
    /\ UNCHANGED <<projects, workflows, db_tasks, db_projects, db_workflows,
                   clock, faulted, last, throttler, cache>>

\* upsert_task from validate_task on: get_project is given projects.read()
\* only while no call holds projects.write(); then the task is validated,
\* inserted if new, stored, and the call returns, its guard dropped.
upsert_task_validate(c, fault) ==
    /\ c \in DOMAIN procs
    /\ procs[c].pc = "get_project: projects.read"
    /\ guards.projects = None
    /\ LET task == procs[c].task
           v == validate_task(task, projects)
       IN IF v # "Ok"
          THEN /\ UNCHANGED <<tasks, db_tasks, faulted>>
               /\ last' = Ret("upsert_task", task.id, task.name, v)
          ELSE StoreTask("upsert_task", task.id, task.name, task, fault, "Ok")
    /\ guards' = Dropped(c)
    /\ procs' = Remove(procs, c)
    /\ UNCHANGED <<projects, workflows, db_projects, db_workflows, clock,
                   active_requests, request_queue, cache>>

\* delete_project up to its first await.
delete_project_call(c, project_id) ==
    /\ c \notin DOMAIN procs
    /\ procs' = Put(procs, c, [ op |-> "delete_project", pc |-> "delete_project: projects.write",
                                project_id |-> project_id ])
    /\ UNCHANGED <<tasks, projects, workflows, db_tasks, db_projects, db_workflows,
                   clock, faulted, last, throttler, cache>>

\* delete_project with the projects guard: the project is removed, or the
\* call returns ProjectNotFound.
delete_project_remove(c) ==
    /\ c \in DOMAIN procs
    /\ procs[c].pc = "delete_project: remove"
    /\ IF procs[c].project_id \in DOMAIN projects
       THEN /\ projects' = Remove(projects, procs[c].project_id)
            /\ procs' = [procs EXCEPT ![c].pc = "delete_project: tasks.write"]
            /\ UNCHANGED <<guards, last>>
       ELSE /\ guards' = Dropped(c)
            /\ procs' = Remove(procs, c)
            /\ last' = Ret("delete_project", procs[c].project_id, "", "ProjectNotFound")
            /\ UNCHANGED projects
    /\ UNCHANGED <<tasks, workflows, db_tasks, db_projects, db_workflows, clock, faulted,
                   active_requests, request_queue, cache>>

\* delete_project with both guards: the tasks of the project lose their
\* project_id, the project is deleted from the store, the call returns.
delete_project_values_mut(c, fault) ==
    /\ c \in DOMAIN procs
    /\ procs[c].pc = "delete_project: values_mut"
    /\ tasks' = [t \in DOMAIN tasks |->
                   IF tasks[t].project_id = Some(procs[c].project_id)
                   THEN [tasks[t] EXCEPT !.project_id = None]
                   ELSE tasks[t]]
    /\ db_projects' = delete(db_projects, procs[c].project_id, fault)
    /\ faulted' = (faulted \/ fault # "none")
    /\ last' = Ret("delete_project", procs[c].project_id, "", StoreResult(fault))
    /\ guards' = Dropped(c)
    /\ procs' = Remove(procs, c)
    /\ UNCHANGED <<projects, workflows, db_tasks, db_workflows, clock,
                   active_requests, request_queue, cache>>

\* The service over a store that holds one project and no task.
InitLocks ==
    /\ tasks = EmptyMap
    /\ db_tasks = EmptyMap
    /\ projects = OneProject
    /\ db_projects = projects
    /\ workflows = EmptyMap
    /\ db_workflows = EmptyMap
    /\ clock = 0
    /\ faulted = FALSE
    /\ procs = NoProcs
    /\ Throttler_new
    /\ Cache_new
    /\ last = NoCall

UpsertCall ==
    \E c \in Calls, name \in UpsertNames :
        upsert_task_call(c, name, "c2", "d2", 1, "High")

UpsertFind ==
    \E c \in Calls : upsert_task_find(c)

UpsertValidate ==
    \E c \in Calls : upsert_task_validate(c, "none")

DeleteProjectCall ==
    \E c \in Calls : delete_project_call(c, 1)

DeleteProjectRemove ==
    \E c \in Calls : delete_project_remove(c)

DeleteProjectValuesMut ==
    \E c \in Calls : delete_project_values_mut(c, "none")

NextLocks ==
    \/ UpsertCall
    \/ UpsertFind
    \/ UpsertValidate
    \/ DeleteProjectCall
    \/ DeleteProjectRemove
    \/ DeleteProjectValuesMut
    \/ Write

SpecLocks == InitLocks /\ [][NextLocks]_vars

\* The call c holds the write guard of `held` and awaits the lock `wanted`.
HoldsAndAwaits(c, held, wanted) ==
    /\ c \in DOMAIN procs
    /\ guards[held] = Some(c)
    /\ \/ Awaited(procs[c].pc) = Some(wanted)
       \/ wanted = "projects" /\ procs[c].pc = "get_project: projects.read"

\* C36: under any interleaving of service calls, Delete(project) beside
\* Upsert-by-name in particular, no state is reachable in which two calls
\* each hold one of the projects and tasks locks and wait for the other.
C36_NoLockCycle ==
    \A c, d \in Calls :
        ~( /\ c # d
           /\ HoldsAndAwaits(c, "tasks", "projects")
           /\ HoldsAndAwaits(d, "projects", "tasks") )

\* Two calls that wait for each other's guard wait for ever.
LockCycleStays ==
    [][ \A c, d \in Calls :
           ( /\ c # d
             /\ HoldsAndAwaits(c, "tasks", "projects")
             /\ HoldsAndAwaits(d, "projects", "tasks") )
           => ( /\ HoldsAndAwaits(c, "tasks", "projects")'
                /\ HoldsAndAwaits(d, "projects", "tasks")' ) ]_vars

\* The tasks of that name.
TasksNamed(name) == { id \in DOMAIN tasks : tasks[id].name = name }

\* C40: concurrent Upsert-by-name calls with the same name, started when no
\* task has that name and with an existing project, create exactly one task:
\* every call that returns names that one task, and a call is refused only
\* once the project is gone.
C40_ConcurrentUpsertCreatesOneTask ==
    /\ \A name \in UpsertNames : Cardinality(TasksNamed(name)) <= 1
    /\ last.op = "upsert_task"
       => IF last.result = "Ok"
          THEN TasksNamed(last.arg) = { last.id }
          ELSE 1 \notin DOMAIN projects

\* One call has created the task and returned its id while another call of
\* the same name, having waited for the tasks guard, has found that task.
C40_Witness ==
    /\ last.op = "upsert_task"
    /\ last.result = "Ok"
    /\ \E c \in DOMAIN procs :
          /\ procs[c].pc = "get_project: projects.read"
          /\ procs[c].name = last.arg
          /\ procs[c].existing_id = Some(last.id)
    /\ Cardinality(DOMAIN tasks) = 1

(***************************************************************************)
(* SpecErrors: update_task and upsert_task given arguments the service     *)
(* refuses, on a task that was submitted and stored.                       *)
(***************************************************************************)
\* PUT /tasks/{id} with a new name, command, description, priority and a status.
UpdatePartial ==
    \E id \in DOMAIN tasks, st \in SettableStatuses :
        update_task(id, Some("b"), Some("c2"), Some("d2"), Some("High"), Some(st), None, "none")

\* POST /tasks/upsert under the name of a task, with any project id.
UpsertExisting ==
    \E id \in DOMAIN tasks, p \in ProjectIds :
        upsert_task(Some(id), id, tasks[id].name, "c2", "d2", p, "High", "none")

NextErrors ==
    \/ CreateProject
    \/ SubmitTask
    \/ UpdatePartial
    \/ UpsertExisting
    \/ AdvanceTaskPhase

SpecErrors == Init /\ [][NextErrors]_vars

\* The step is an update_task or upsert_task on id that returned an error.
MutationRefused(id) ==
    /\ last'.op \in { "update_task", "upsert_task" }
    /\ last'.id = id
    /\ last'.result \in { "InvalidStatusTransition", "InvalidTaskDefinition" }
    /\ id \in DOMAIN tasks

\* C37: a task mutation that returns an error leaves the task unchanged: an
\* UpdatePartial refused as InvalidStatusTransition and an Upsert-by-name
\* refused for its missing project both leave the in-memory task as it was
\* before the call and equal to its stored value.
C37_RefusedMutationChangesNothing ==
    [][ \A id \in TaskIds :
           MutationRefused(id)
           => /\ tasks'[id] = tasks[id]
              /\ id \in DOMAIN db_tasks'
              /\ db_tasks'[id] = tasks'[id] ]_vars

\* A refused mutation writes nothing to the store.
RefusedMutationStoresNothing ==
    [][ \A id \in TaskIds : MutationRefused(id) => db_tasks' = db_tasks ]_vars

\* Violated: a refused upsert_task leaves the task as it was.
RefusedUpsertChangesNothing ==
    [][ \A id \in TaskIds :
           ( MutationRefused(id) /\ last'.op = "upsert_task" ) => tasks'[id] = tasks[id] ]_vars

(***************************************************************************)
(* SpecReach: every operation that writes a task's phase or its workflow   *)
(* status, on one task created by submit_task or by upsert_task.           *)
(***************************************************************************)
SubmitOneTask ==
    \E id \in FreshTaskIds, p \in DOMAIN projects :
        /\ tasks = EmptyMap
        /\ submit_task(to_task(id, "a", "c1", "d", Some(p), "Normal", 1, clock), "none")

UpsertOneTask ==
    \E existing \in {None} \cup { Some(i) : i \in DOMAIN tasks }, id \in FreshTaskIds,
       p \in DOMAIN projects :
        /\ existing = None => tasks = EmptyMap
        /\ upsert_task(existing, id, "a", "c2", "d", p, "Normal", "none")

UpdateStatusOfTask ==
    \E id \in DOMAIN tasks, st \in SettableStatuses \cup { "Pending", "Running", "Completed" } :
        update_task(id, None, None, None, None, Some(st), None, "none")

CancelOneTask ==
    \E id \in DOMAIN tasks : cancel_task(id, "stop", "none")

RetryOneTask ==
    \E id \in DOMAIN tasks : retry_task(id, TRUE, "none")

AddFirstReview ==
    \E id \in DOMAIN tasks, review \in Reviews :
        /\ tasks[id].development_workflow # None
        /\ tasks[id].ai_reviews_completed < tasks[id].ai_reviews_required
        /\ ReviewsLeft(id)
        /\ add_ai_review_report(id, review, "none")

NextReach ==
    \/ CreateProject
    \/ SubmitOneTask
    \/ UpsertOneTask
    \/ SetStatusOfTask
    \/ AdvancePhaseOfTask
    \/ UpdateStatusOfTask
    \/ CancelOneTask
    \/ RetryOneTask
    \/ AddFirstReview
    \/ AdvanceWorkflowOfTask

SpecReach == Init /\ [][NextReach]_vars

ReachablePhases ==
    { "Planning", "Implementation", "TestCreation", "Testing", "AIReview", "Finalized",
      "Cancelled" }

\* C38: from a task created by Submit or Upsert-by-name, no sequence of
\* service operations yields current_phase = Failed or workflow_status =
\* Failed; current_phase only takes the values Planning, Implementation,
\* TestCreation, Testing, AIReview, Finalized and Cancelled.
C38_FailedIsUnreachable ==
    \A id \in DOMAIN tasks :
        /\ tasks[id].current_phase \in ReachablePhases
        /\ tasks[id].development_workflow # None
           => tasks[id].development_workflow[1].workflow_status # "Failed"
        /\ \A i \in 1..Len(tasks[id].phases) : tasks[id].phases[i].phase \in ReachablePhases

\* A task that went through every phase to Finalized, its workflow advanced
\* to Completed on its own.
C38_Witness ==
    \E id \in DOMAIN tasks :
        /\ tasks[id].current_phase = "Finalized"
        /\ \A phase \in { "TestCreation", "Testing", "AIReview" } :
              \E i \in 1..Len(tasks[id].phases) : tasks[id].phases[i].phase = phase
        /\ tasks[id].development_workflow[1].workflow_status = "Completed"
        /\ last.op \in PhaseOperations
        /\ last.result \in { "Ok", "Ok(true)" }

\* C39: Cancelled is absorbing for the phase machine and Finalized is
\* terminal but for cancellation: once current_phase is Cancelled no later
\* SetStatus, AdvancePhase or UpdatePartial changes it, and once it is
\* Finalized the only other value it takes is Cancelled.
C39_CancelledAbsorbsFinalizedEnds ==
    [][ \A id \in DOMAIN tasks :
           id \in DOMAIN tasks'
           => /\ tasks[id].current_phase = "Cancelled"
                 => tasks'[id].current_phase = "Cancelled"
              /\ tasks[id].current_phase = "Finalized"
                 => tasks'[id].current_phase \in { "Finalized", "Cancelled" } ]_vars

\* A task cancelled once its reviews were done has just been asked, through
\* update_task, for another phase, and was refused.
C39_Witness ==
    \E id \in DOMAIN tasks :
        /\ tasks[id].current_phase = "Cancelled"
        /\ tasks[id].ai_reviews_completed >= tasks[id].ai_reviews_required
        /\ \E i \in 1..Len(tasks[id].phases) : tasks[id].phases[i].phase = "AIReview"
        /\ last.op = "update_task"
        /\ last.id = id
        /\ last.result = "InvalidStatusTransition"

====
